--------------------------- MODULE ClhtLbRes_map ---------------------------
(***************************************************************************)
(* Proofs about the contents of the tables of ClhtLbRes and the answers of  *)
(* its calls, for every value of the constants: no key is ever in a table   *)
(* twice, a resize carries over exactly what the old table holds, and what  *)
(* the threads see is what the atomic map of KVMap could have answered.     *)
(* All follow from MapInv, which is inductive together with IndInv of       *)
(* ClhtLbRes_proofs.                                                        *)
(***************************************************************************)
EXTENDS ClhtLbRes_proofs

USE DEF None

(* One chain, as its two sequences: the value it gives a key, and what a    *)
(* write does to it.                                                        *)
At(kc, vc, k) ==
  IF SlotsWith(kc, k) = {} THEN None ELSE vc[CHOOSE i \in SlotsWith(kc, k) : TRUE]

Unique(kc) == \A i, j \in 1..Len(kc) : kc[i] = kc[j] /\ kc[i] # None => i = j

(* kd, vd is kc, vc with the entry k, v in slot i, which was empty or is in *)
(* a new bucket.                                                            *)
Placed(kc, vc, kd, vd, i, k, v) ==
  /\ Len(kc) \in Nat /\ Len(kd) \in Nat /\ Len(kc) <= Len(kd)
  /\ i \in 1..Len(kd) /\ kd[i] = k /\ vd[i] = v
  /\ i \in 1..Len(kc) => kc[i] = None
  /\ \A j \in 1..Len(kc) : j # i => kd[j] = kc[j] /\ vd[j] = vc[j]
  /\ \A j \in 1..Len(kd) : j \notin 1..Len(kc) /\ j # i => kd[j] = None /\ vd[j] = None

(* kd is kc without the key of slot i.                                      *)
Cleared(kc, kd, i) ==
  /\ Len(kc) \in Nat /\ Len(kd) = Len(kc)
  /\ i \in 1..Len(kc) /\ kd[i] = None
  /\ \A j \in 1..Len(kc) : j # i => kd[j] = kc[j]

(* Lookup is At of the chain of the key.                                    *)
LEMMA LookupAt ==
  ASSUME NEW t, NEW k
  PROVE  Lookup(t, k) = At(key[t][clht_hash(t, k)], val[t][clht_hash(t, k)], k)
  BY DEF Lookup, At

(* If no slot holds a key twice, any slot that holds it has its value.      *)
LEMMA AtSlot ==
  ASSUME NEW kc, NEW vc, NEW k, k # None, Unique(kc), NEW i \in SlotsWith(kc, k)
  PROVE  At(kc, vc, k) = vc[i]
<1> DEFINE j == CHOOSE j \in SlotsWith(kc, k) : TRUE
<1>1. j \in SlotsWith(kc, k)
  OBVIOUS
<1>2. j = i
  BY <1>1 DEF SlotsWith, Unique
<1> QED
  BY <1>2 DEF At

(* Placing an absent key adds its slot, and leaves the slots of the others. *)
LEMMA PlacedSlots ==
  ASSUME NEW kc, NEW vc, NEW kd, NEW vd, NEW i, NEW k, NEW v,
         Placed(kc, vc, kd, vd, i, k, v), k # None
  PROVE  /\ SlotsWith(kd, k) = SlotsWith(kc, k) \cup {i}
         /\ \A x : x # k /\ x # None =>
              /\ SlotsWith(kd, x) = SlotsWith(kc, x)
              /\ \A j \in SlotsWith(kc, x) : vd[j] = vc[j]
<1>1. SlotsWith(kd, k) = SlotsWith(kc, k) \cup {i}
  BY DEF Placed, SlotsWith
<1>2. ASSUME NEW x, x # k, x # None
      PROVE  /\ SlotsWith(kd, x) = SlotsWith(kc, x)
             /\ \A j \in SlotsWith(kc, x) : vd[j] = vc[j]
  BY <1>2 DEF Placed, SlotsWith
<1> QED
  BY <1>1, <1>2

(* An entry placed where its key was absent answers for that key alone.     *)
LEMMA PlacedAt ==
  ASSUME NEW kc, NEW vc, NEW kd, NEW vd, NEW i, NEW k, NEW v,
         Placed(kc, vc, kd, vd, i, k, v), k # None, SlotsWith(kc, k) = {}, Unique(kc)
  PROVE  /\ Unique(kd)
         /\ \A x : x # None => At(kd, vd, x) = IF x = k THEN v ELSE At(kc, vc, x)
<1>1. Unique(kd)
  <2> SUFFICES ASSUME NEW a \in 1..Len(kd), NEW b \in 1..Len(kd), kd[a] = kd[b], kd[a] # None
               PROVE  a = b
    BY DEF Unique
  <2>1. ASSUME NEW j \in 1..Len(kd), kd[j] # None, j # i
        PROVE  j \in 1..Len(kc) /\ kc[j] = kd[j] /\ kc[j] # k
    BY <2>1 DEF Placed, SlotsWith
  <2>2. kd[i] = k
    BY DEF Placed
  <2> QED
    BY <2>1, <2>2 DEF Unique
<1>2. At(kd, vd, k) = v
  <2>1. i \in SlotsWith(kd, k) /\ vd[i] = v
    BY DEF Placed, SlotsWith
  <2> QED
    BY <1>1, <2>1, AtSlot
<1>3. ASSUME NEW x, x # None, x # k PROVE At(kd, vd, x) = At(kc, vc, x)
  <2>1. /\ SlotsWith(kd, x) = SlotsWith(kc, x)
        /\ \A j \in SlotsWith(kc, x) : vd[j] = vc[j]
    BY <1>3, PlacedSlots
  <2> QED
    BY <2>1 DEF At
<1> QED
  BY <1>2, <1>1, <1>3

(* Clearing the slot of a key takes that key away, and no other.            *)
LEMMA ClearedSlots ==
  ASSUME NEW kc, NEW kd, NEW i, NEW k, Cleared(kc, kd, i), i \in SlotsWith(kc, k),
         Unique(kc), k # None
  PROVE  /\ Unique(kd) /\ SlotsWith(kd, k) = {}
         /\ \A x : x # k /\ x # None => SlotsWith(kd, x) = SlotsWith(kc, x)
<1>1. Unique(kd) /\ SlotsWith(kd, k) = {}
  BY DEF Cleared, Unique, SlotsWith
<1>2. ASSUME NEW x, x # k, x # None PROVE SlotsWith(kd, x) = SlotsWith(kc, x)
  BY <1>2 DEF Cleared, SlotsWith
<1> QED
  BY <1>1, <1>2

-----------------------------------------------------------------------------
(* What a step does to the chains of the tables.                            *)

(* No chain but that of bucket b of table t changes.                        *)
Elsewhere(t, b) ==
  \A u \in Tables, c \in Bins :
    u # t \/ c # b => key'[u][c] = key[u][c] /\ val'[u][c] = val[u][c]

(* The entry k, v comes into table t, which does not have the key.          *)
Stores(t, k, v) ==
  LET b == clht_hash(t, k)
  IN  /\ Elsewhere(t, b)
      /\ SlotsWith(key[t][b], k) = {}
      /\ \E i : Placed(key[t][b], val[t][b], key'[t][b], val'[t][b], i, k, v)

(* The key k goes from table t, which has it; its value stays in the slot.  *)
Deletes(t, k) ==
  LET b == clht_hash(t, k)
  IN  /\ Elsewhere(t, b) /\ val' = val
      /\ \E i \in SlotsWith(key[t][b], k) : Cleared(key[t][b], key'[t][b], i)

(* A value is written to an empty slot.                                     *)
Prepares(t, b, v) ==
  /\ key' = key
  /\ \E i \in SlotsWith(key[t][b], None) : val' = [val EXCEPT ![t][b][i] = v]

(* The slots that existed keep their values.                                *)
ValuesStay ==
  \A t \in Tables, b \in Bins : \A i \in 1..Len(val[t][b]) : val'[t][b][i] = val[t][b][i]

(* What a search finds next is decided by the next bucket.                  *)
LEMMA LookupNext ==
  ASSUME NEW t, NEW k, num_buckets'[t] = num_buckets[t]
  PROVE  Lookup(t, k)' = At(key'[t][clht_hash(t, k)], val'[t][clht_hash(t, k)], k)
  BY DEF Lookup, At, clht_hash

(* What the answers are after an entry came in, ...                         *)
LEMMA StoreLookup ==
  ASSUME TablesOK, UniqueKeys, num_buckets' = num_buckets,
         NEW t \in Tables, NEW k \in Keys, NEW v, Stores(t, k, v)
  PROVE  /\ UniqueKeys'
         /\ \A u \in Tables, x \in Keys :
              Lookup(u, x)' = IF u = t /\ x = k THEN v ELSE Lookup(u, x)
<1> DEFINE b == clht_hash(t, k)
<1>1. k # None /\ b \in Bins
  BY KeysAssumption, HashInRange
<1>2. PICK i : Placed(key[t][b], val[t][b], key'[t][b], val'[t][b], i, k, v)
  BY DEF Stores
<1>3. Unique(key[t][b]) /\ SlotsWith(key[t][b], k) = {}
  BY <1>1 DEF UniqueKeys, Unique, Stores
<1>4. /\ Unique(key'[t][b])
      /\ \A x : x # None => At(key'[t][b], val'[t][b], x) =
                              IF x = k THEN v ELSE At(key[t][b], val[t][b], x)
  BY <1>1, <1>2, <1>3, PlacedAt
<1>5. \A u \in Tables, c \in Bins :
        u # t \/ c # b => key'[u][c] = key[u][c] /\ val'[u][c] = val[u][c]
  BY DEF Stores, Elsewhere
<1>6. UniqueKeys'
  BY <1>4, <1>5 DEF UniqueKeys, Unique
<1>7. ASSUME NEW u \in Tables, NEW x \in Keys
      PROVE  Lookup(u, x)' = IF u = t /\ x = k THEN v ELSE Lookup(u, x)
  <2> DEFINE c == clht_hash(u, x)
  <2>1. x # None /\ c \in Bins
    BY KeysAssumption, HashInRange
  <2>2. Lookup(u, x)' = At(key'[u][c], val'[u][c], x)
    BY LookupNext
  <2>3. Lookup(u, x) = At(key[u][c], val[u][c], x)
    BY LookupAt
  <2>4. x = k /\ u = t => c = b
    OBVIOUS
  <2> HIDE DEF b, c
  <2> QED
    BY <1>4, <1>5, <2>1, <2>2, <2>3, <2>4
<1> QED
  BY <1>6, <1>7

(* ... after one went, ...                                                  *)
LEMMA DeleteLookup ==
  ASSUME TablesOK, UniqueKeys, num_buckets' = num_buckets,
         NEW t \in Tables, NEW k \in Keys, Deletes(t, k)
  PROVE  /\ UniqueKeys'
         /\ \A u \in Tables, x \in Keys :
              Lookup(u, x)' = IF u = t /\ x = k THEN None ELSE Lookup(u, x)
<1> DEFINE b == clht_hash(t, k)
<1>1. k # None /\ b \in Bins
  BY KeysAssumption, HashInRange
<1>2. PICK i \in SlotsWith(key[t][b], k) : Cleared(key[t][b], key'[t][b], i)
  BY DEF Deletes
<1>3. Unique(key[t][b])
  BY <1>1 DEF UniqueKeys, Unique
<1>4. /\ Unique(key'[t][b])
      /\ \A x : x # None => At(key'[t][b], val[t][b], x) =
                              IF x = k THEN None ELSE At(key[t][b], val[t][b], x)
  <2> HIDE DEF b
  <2>1. Unique(key'[t][b])
    BY <1>1, <1>2, <1>3, ClearedSlots
  <2>2. /\ SlotsWith(key'[t][b], k) = {}
        /\ \A x : x # k /\ x # None => SlotsWith(key'[t][b], x) = SlotsWith(key[t][b], x)
    BY <1>1, <1>2, <1>3, ClearedSlots
  <2>3. At(key'[t][b], val[t][b], k) = None
    BY <2>2 DEF At
  <2>4. ASSUME NEW x, x # None, x # k
        PROVE  At(key'[t][b], val[t][b], x) = At(key[t][b], val[t][b], x)
    <3>1. SlotsWith(key'[t][b], x) = SlotsWith(key[t][b], x)
      BY <2>2, <2>4
    <3> QED
      BY <3>1 DEF At
  <2> QED
    BY <2>1, <2>3, <2>4
<1>5. /\ \A u \in Tables, c \in Bins : u # t \/ c # b => key'[u][c] = key[u][c]
      /\ val' = val
  BY DEF Deletes, Elsewhere
<1>6. UniqueKeys'
  BY <1>4, <1>5 DEF UniqueKeys, Unique
<1>7. ASSUME NEW u \in Tables, NEW x \in Keys
      PROVE  Lookup(u, x)' = IF u = t /\ x = k THEN None ELSE Lookup(u, x)
  <2> DEFINE c == clht_hash(u, x)
  <2>1. x # None /\ c \in Bins
    BY KeysAssumption, HashInRange
  <2>2. Lookup(u, x)' = At(key'[u][c], val'[u][c], x)
    BY LookupNext
  <2>3. Lookup(u, x) = At(key[u][c], val[u][c], x)
    BY LookupAt
  <2>4. x = k /\ u = t => c = b
    OBVIOUS
  <2> HIDE DEF b, c
  <2> QED
    BY <1>4, <1>5, <2>1, <2>2, <2>3, <2>4
<1> QED
  BY <1>6, <1>7

(* ... and after a value was written to an empty slot.                      *)
LEMMA PrepareLookup ==
  ASSUME TablesOK, UniqueKeys, num_buckets' = num_buckets,
         NEW t \in Tables, NEW b \in Bins, NEW v, Prepares(t, b, v)
  PROVE  /\ UniqueKeys'
         /\ \A u \in Tables, x \in Keys : Lookup(u, x)' = Lookup(u, x)
         /\ \A u \in Tables, c \in Bins : \A j \in 1..Len(key[u][c]) :
              key[u][c][j] # None => val'[u][c][j] = val[u][c][j]
<1>1. PICK i \in SlotsWith(key[t][b], None) : val' = [val EXCEPT ![t][b][i] = v]
  BY DEF Prepares
<1>2. key[t][b][i] = None /\ key' = key
  BY DEF SlotsWith, Prepares
<1>3. val \in [Tables -> [Bins -> Seq(Vals \cup {None})]]
  BY DEF TablesOK
<1>4. ASSUME NEW u \in Tables, NEW c \in Bins, NEW j \in 1..Len(key[u][c]), key[u][c][j] # None
      PROVE  val'[u][c][j] = val[u][c][j]
  <2>1. val[u][c] \in Seq(Vals \cup {None}) /\ j \in 1..Len(val[u][c])
    BY <1>3, <1>4 DEF TablesOK
  <2>2. u # t \/ c # b \/ j # i
    BY <1>2, <1>4
  <2> QED
    BY <1>1, <1>3, <2>1, <2>2
<1>5. UniqueKeys'
  BY <1>2 DEF UniqueKeys
<1>6. ASSUME NEW u \in Tables, NEW x \in Keys PROVE Lookup(u, x)' = Lookup(u, x)
  <2> DEFINE c == clht_hash(u, x)
             S == SlotsWith(key[u][c], x)
  <2>1. c \in Bins /\ x # None
    BY KeysAssumption, HashInRange
  <2>2. ASSUME NEW j \in S PROVE val'[u][c][j] = val[u][c][j]
    BY <1>4, <2>1, <2>2 DEF SlotsWith
  <2>3. Lookup(u, x)' = At(key[u][c], val'[u][c], x) /\ Lookup(u, x) = At(key[u][c], val[u][c], x)
    BY <1>2, LookupNext, LookupAt
  <2>4. CASE S = {}
    BY <2>3, <2>4 DEF At
  <2>5. CASE S # {}
    <3>1. (CHOOSE j \in S : TRUE) \in S
      BY <2>5
    <3> QED
      BY <2>2, <2>3, <3>1 DEF At
  <2> QED
    BY <2>4, <2>5
<1> QED
  BY <1>4, <1>5, <1>6
-----------------------------------------------------------------------------
(* The actions that change chains, as what they do to one.                  *)

(* One slot of one chain gets a key, a value or both.                       *)
LEMMA WrittenSlot ==
  ASSUME ChainsOK, NEW t \in Tables, NEW b \in Bins, NEW i \in 1..Len(key[t][b]),
         key[t][b][i] = None, NEW k \in Keys \cup {None}, NEW v \in Vals \cup {None},
         key' = [key EXCEPT ![t][b][i] = k],
         \/ val' = [val EXCEPT ![t][b][i] = v]
         \/ val' = val /\ val[t][b][i] = v
  PROVE  /\ Elsewhere(t, b)
         /\ Placed(key[t][b], val[t][b], key'[t][b], val'[t][b], i, k, v)
<1>1. /\ key \in [Tables -> [Bins -> Seq(Keys \cup {None})]]
      /\ val \in [Tables -> [Bins -> Seq(Vals \cup {None})]]
      /\ Len(key[t][b]) = Len(val[t][b]) /\ Len(key[t][b]) \in Nat
  BY LenType DEF ChainsOK
<1>2. /\ \A u \in Tables, c \in Bins :
           key'[u][c] = IF u = t /\ c = b THEN [key[t][b] EXCEPT ![i] = k] ELSE key[u][c]
      /\ \/ \A u \in Tables, c \in Bins :
              val'[u][c] = IF u = t /\ c = b THEN [val[t][b] EXCEPT ![i] = v] ELSE val[u][c]
         \/ val' = val /\ val[t][b][i] = v
  <2>1. \A u \in Tables, c \in Bins :
          key'[u][c] = IF u = t /\ c = b THEN [key[t][b] EXCEPT ![i] = k] ELSE key[u][c]
    BY <1>1
  <2>2. CASE val' = [val EXCEPT ![t][b][i] = v]
    <3>1. \A u \in Tables, c \in Bins :
            val'[u][c] = IF u = t /\ c = b THEN [val[t][b] EXCEPT ![i] = v] ELSE val[u][c]
      BY <1>1, <2>2
    <3> QED
      BY <2>1, <3>1
  <2> QED
    BY <2>1, <2>2
<1>3. key[t][b] \in Seq(Keys \cup {None}) /\ val[t][b] \in Seq(Vals \cup {None})
  BY <1>1
<1>4. key'[t][b] = [key[t][b] EXCEPT ![i] = k]
  BY <1>2
<1>5. val'[t][b] = [val[t][b] EXCEPT ![i] = v] \/ (val'[t][b] = val[t][b] /\ val[t][b][i] = v)
  BY <1>2
<1>6. Elsewhere(t, b)
  BY <1>2 DEF Elsewhere
<1>7. Len(key'[t][b]) = Len(key[t][b]) /\ key'[t][b][i] = k /\ val'[t][b][i] = v
  BY <1>1, <1>3, <1>4, <1>5
<1>8. \A j \in 1..Len(key[t][b]) :
        j # i => key'[t][b][j] = key[t][b][j] /\ val'[t][b][j] = val[t][b][j]
  BY <1>1, <1>3, <1>4, <1>5
<1> QED
  BY <1>1, <1>6, <1>7, <1>8 DEF Placed

(* d is c with a new bucket, whose first slot holds x.                      *)
Linked(c, d, x) ==
  /\ Len(d) = Len(c) + Entries
  /\ \A j \in 1..Len(c) : d[j] = c[j]
  /\ d[Len(c) + 1] = x
  /\ \A j \in 1..(Len(c) + Entries) : j \notin 1..Len(c) /\ j # Len(c) + 1 => d[j] = None

(* A bucket with one entry, linked to a chain, adds that entry.             *)
LEMMA BucketLinked ==
  ASSUME NEW S, None \in S, NEW c \in Seq(S), NEW x \in S
  PROVE  Linked(c, c \o NewBucket(x), x)
<1>1. /\ NewBucket(x) \in Seq(S) /\ Len(NewBucket(x)) = Entries
      /\ \A j \in 1..Entries : NewBucket(x)[j] = IF j = 1 THEN x ELSE None
  BY EntriesAssumption DEF NewBucket
<1>2. Len(c) \in Nat /\ Entries \in Nat \ {0}
  BY EntriesAssumption
<1> HIDE DEF NewBucket
<1>3. /\ Len(c \o NewBucket(x)) = Len(c) + Entries
      /\ \A j \in 1..(Len(c) + Entries) :
           (c \o NewBucket(x))[j] = IF j <= Len(c) THEN c[j] ELSE NewBucket(x)[j - Len(c)]
  BY <1>1, <1>2
<1>4. (c \o NewBucket(x))[Len(c) + 1] = x
  <2>1. Len(c) + 1 \in 1..(Len(c) + Entries) /\ ~(Len(c) + 1 <= Len(c))
        /\ Len(c) + 1 - Len(c) = 1 /\ 1 \in 1..Entries
    BY <1>2
  <2> QED
    BY <1>1, <1>3, <2>1
<1>5. ASSUME NEW j \in 1..(Len(c) + Entries), j \notin 1..Len(c), j # Len(c) + 1
      PROVE  (c \o NewBucket(x))[j] = None
  <2>1. ~(j <= Len(c)) /\ j - Len(c) \in 1..Entries /\ j - Len(c) # 1
    BY <1>2, <1>5
  <2> QED
    BY <1>1, <1>3, <2>1
<1>6. ASSUME NEW j \in 1..Len(c) PROVE (c \o NewBucket(x))[j] = c[j]
  <2>1. j \in 1..(Len(c) + Entries) /\ j <= Len(c)
    BY <1>2
  <2> QED
    BY <1>3, <2>1
<1> QED
  BY <1>3, <1>4, <1>5, <1>6 DEF Linked

(* One chain gets a new bucket with one entry.                              *)
LEMMA LinkedBucket ==
  ASSUME ChainsOK, NEW t \in Tables, NEW b \in Bins, NEW k \in Keys, NEW v \in Vals \cup {None},
         key' = [key EXCEPT ![t][b] = @ \o NewBucket(k)],
         val' = [val EXCEPT ![t][b] = @ \o NewBucket(v)]
  PROVE  /\ Elsewhere(t, b)
         /\ Placed(key[t][b], val[t][b], key'[t][b], val'[t][b], Len(key[t][b]) + 1, k, v)
         /\ \A j \in 1..Len(val[t][b]) : val'[t][b][j] = val[t][b][j]
<1>1. /\ key \in [Tables -> [Bins -> Seq(Keys \cup {None})]]
      /\ val \in [Tables -> [Bins -> Seq(Vals \cup {None})]]
      /\ Len(val[t][b]) = Len(key[t][b]) /\ Len(key[t][b]) \in Nat
  BY LenType DEF ChainsOK
<1>2. /\ key'[t][b] = key[t][b] \o NewBucket(k) /\ val'[t][b] = val[t][b] \o NewBucket(v)
      /\ Elsewhere(t, b)
  BY <1>1 DEF Elsewhere
<1>3. key[t][b] \in Seq(Keys \cup {None}) /\ val[t][b] \in Seq(Vals \cup {None})
  BY <1>1
<1> DEFINE n == Len(key[t][b])
           kd == key[t][b] \o NewBucket(k)
           vd == val[t][b] \o NewBucket(v)
<1>5. Linked(key[t][b], kd, k)
  BY <1>3, BucketLinked
<1>6. Linked(val[t][b], vd, v)
  BY <1>3, BucketLinked
<1>7. /\ Entries \in Nat \ {0} /\ n \in Nat /\ n + Entries \in Nat /\ n <= n + Entries
      /\ n + 1 \in 1..(n + Entries) /\ n + 1 \notin 1..n /\ \A j \in 1..n : j # n + 1
  BY <1>1, EntriesAssumption
<1>8. key'[t][b] = kd /\ val'[t][b] = vd /\ Len(key[t][b]) = n /\ Len(val[t][b]) = n
  BY <1>1, <1>2
<1> HIDE DEF n, kd, vd
<1>9. Placed(key[t][b], val[t][b], kd, vd, n + 1, k, v)
  BY <1>5, <1>6, <1>7, <1>8 DEF Placed, Linked
<1> QED
  BY <1>2, <1>6, <1>8, <1>9 DEF Linked, n

(* A key that a slot of its chain holds has the value of that slot, and a   *)
(* key has a value exactly if some slot holds it.                           *)
LEMMA LookupSlot ==
  ASSUME TablesOK, UniqueKeys, NEW t \in Tables, NEW k \in Keys,
         NEW i \in SlotsWith(key[t][clht_hash(t, k)], k)
  PROVE  Lookup(t, k) = val[t][clht_hash(t, k)][i]
<1> DEFINE b == clht_hash(t, k)
<1>1. k # None /\ b \in Bins
  BY KeysAssumption, HashInRange
<1>2. Unique(key[t][b])
  BY <1>1 DEF UniqueKeys, Unique
<1>3. At(key[t][b], val[t][b], k) = val[t][b][i]
  BY <1>1, <1>2, AtSlot
<1> QED
  BY <1>3, LookupAt

(* A search finds nothing exactly if no slot has the key.                   *)
LEMMA Absent ==
  ASSUME TablesOK, UniqueKeys, KeysInPlace, NEW t \in Tables, NEW k \in Keys
  PROVE  Lookup(t, k) = None <=> SlotsWith(key[t][clht_hash(t, k)], k) = {}
<1> DEFINE b == clht_hash(t, k)
<1>1. k # None /\ b \in Bins
  BY KeysAssumption, HashInRange
<1>2. ASSUME NEW i \in SlotsWith(key[t][b], k) PROVE Lookup(t, k) # None
  <2>1. val[t][b][i] # None
    BY <1>1, <1>2 DEF KeysInPlace, SlotsWith
  <2> QED
    BY <2>1, LookupSlot
<1>3. SlotsWith(key[t][b], k) = {} => Lookup(t, k) = None
  BY DEF Lookup
<1> QED
  BY <1>2, <1>3

(* A thread that is not idle has a call, with a key and, if it is a put, a  *)
(* value.                                                                   *)
LEMMA Caller ==
  ASSUME TypeOK, Phases, NEW p \in Threads, pc[p] # "idle"
  PROVE  /\ call[p] \in Calls /\ call[p].key \in Keys /\ call[p].key # None
         /\ call[p].op = "put" => call[p].val \in Vals
<1>1. call[p] # Idle
  BY DEF Phases
<1>2. call[p] \in Calls
  BY <1>1 DEF TypeOK, ThreadsOK
<1>3. call[p].key \in Keys /\ call[p].val \in Vals \cup {None}
  BY <1>2 DEF Calls
<1>4. call[p].op = "put" => call[p].val # None
  BY DEF Phases
<1> QED
  BY <1>2, <1>3, <1>4, KeysAssumption

(* A put that has written its value only has prepared its entry.            *)
LEMMA PutValEffect ==
  ASSUME IndInv, NEW p \in Threads, PutVal(p)
  PROVE  Prepares(tab[p], Bin(p), call[p].val)
  BY DEF PutVal, Prepares, Chain

(* The put that stores its entry in a free slot ...                         *)
LEMMA PutKeyEffect ==
  ASSUME IndInv, ContentsInv, NEW p \in Threads, PutKey(p)
  PROVE  Stores(tab[p], call[p].key, call[p].val) /\ val' = val
<1>1. /\ tab[p] \in Tables /\ Bin(p) \in Bins /\ ChainsOK
      /\ call[p].key \in Keys \cup {None} /\ call[p].val \in Vals \cup {None}
  BY Thread DEF IndInv
<1>2. pc[p] = "putkey" /\ val' = val
  BY DEF PutKey
<1>3. ix[p] \in 1..Len(key[tab[p]][Bin(p)])
  BY <1>1, <1>2, Thread, LenType DEF IndInv, InRange, Scanning, Chain
<1>4. /\ SlotsWith(key[tab[p]][Bin(p)], call[p].key) = {}
      /\ key[tab[p]][Bin(p)][ix[p]] = None /\ val[tab[p]][Bin(p)][ix[p]] = call[p].val
  BY <1>2 DEF ContentsInv, PutsReady, Chain, KeyAt, ValAt
<1>5. key' = [key EXCEPT ![tab[p]][Bin(p)][ix[p]] = call[p].key]
  BY DEF PutKey
<1>6. /\ Elsewhere(tab[p], Bin(p))
      /\ Placed(key[tab[p]][Bin(p)], val[tab[p]][Bin(p)], key'[tab[p]][Bin(p)],
                val'[tab[p]][Bin(p)], ix[p], call[p].key, call[p].val)
  BY <1>1, <1>2, <1>3, <1>4, <1>5, WrittenSlot
<1> QED
  BY <1>2, <1>4, <1>6 DEF Stores, Bin

(* ... and the one that links a new bucket.                                 *)
LEMMA PutLinkEffect ==
  ASSUME IndInv, ContentsInv, NEW p \in Threads, PutLink(p)
  PROVE  /\ Stores(tab[p], call[p].key, call[p].val)
         /\ ValuesStay
<1>1. /\ tab[p] \in Tables /\ Bin(p) \in Bins /\ ChainsOK
      /\ call[p].val \in Vals \cup {None}
  BY Thread DEF IndInv
<1>2. pc[p] = "putlink"
  BY DEF PutLink
<1>3. call[p].key \in Keys
  BY <1>2, Caller DEF IndInv, ContentsInv
<1>4. SlotsWith(key[tab[p]][Bin(p)], call[p].key) = {}
  BY <1>2 DEF ContentsInv, PutsReady, Chain
<1>5. /\ key' = [key EXCEPT ![tab[p]][Bin(p)] = @ \o NewBucket(call[p].key)]
      /\ val' = [val EXCEPT ![tab[p]][Bin(p)] = @ \o NewBucket(call[p].val)]
  BY DEF PutLink
<1> DEFINE n == Len(key[tab[p]][Bin(p)]) + 1
<1>6. /\ Elsewhere(tab[p], Bin(p))
      /\ Placed(key[tab[p]][Bin(p)], val[tab[p]][Bin(p)], key'[tab[p]][Bin(p)],
                val'[tab[p]][Bin(p)], n, call[p].key, call[p].val)
      /\ \A j \in 1..Len(val[tab[p]][Bin(p)]) :
           val'[tab[p]][Bin(p)][j] = val[tab[p]][Bin(p)][j]
  BY <1>1, <1>3, <1>5, LinkedBucket
<1>7. ValuesStay
  BY <1>1, <1>6 DEF ValuesStay, Elsewhere
<1> QED
  BY <1>4, <1>6, <1>7 DEF Stores, Bin

(* The remove that finds its key.                                           *)
LEMMA RemoveEffect ==
  ASSUME IndInv, ContentsInv, NEW p \in Threads, RemoveKey(p)
  PROVE  /\ Deletes(tab[p], call[p].key)
         /\ ret' = [ret EXCEPT ![p] = Lookup(tab[p], call[p].key)]
         /\ Lookup(tab[p], call[p].key) # None
<1>1. /\ tab[p] \in Tables /\ Bin(p) \in Bins /\ ChainsOK /\ TablesOK
  BY Thread DEF IndInv, TypeOK
<1>2. call[p].key \in Keys /\ call[p].key # None
  BY Caller DEF IndInv, ContentsInv, RemoveKey
<1>3. PICK i \in SlotsWith(key[tab[p]][Bin(p)], call[p].key) :
        /\ key' = [key EXCEPT ![tab[p]][Bin(p)][i] = None]
        /\ ret' = [ret EXCEPT ![p] = val[tab[p]][Bin(p)][i]]
  BY DEF RemoveKey, Chain
<1>4. val' = val /\ i \in 1..Len(key[tab[p]][Bin(p)])
  BY DEF RemoveKey, SlotsWith
<1>5. key \in [Tables -> [Bins -> Seq(Keys \cup {None})]] /\ Len(key[tab[p]][Bin(p)]) \in Nat
  BY <1>1, LenType DEF ChainsOK
<1>6. /\ key'[tab[p]][Bin(p)] = [key[tab[p]][Bin(p)] EXCEPT ![i] = None]
      /\ Elsewhere(tab[p], Bin(p))
  BY <1>1, <1>3, <1>4, <1>5 DEF Elsewhere
<1>7. key[tab[p]][Bin(p)] \in Seq(Keys \cup {None})
  BY <1>1, <1>5
<1>8. Cleared(key[tab[p]][Bin(p)], key'[tab[p]][Bin(p)], i)
  BY <1>4, <1>5, <1>6, <1>7 DEF Cleared
<1>9. Lookup(tab[p], call[p].key) = val[tab[p]][Bin(p)][i]
  BY <1>1, <1>2, LookupSlot DEF Bin, ContentsInv
<1>10. val[tab[p]][Bin(p)][i] # None
  BY <1>1, <1>2, <1>4 DEF ContentsInv, KeysInPlace, SlotsWith
<1> QED
  BY <1>3, <1>4, <1>6, <1>8, <1>9, <1>10 DEF Deletes, Bin

(* The resize copies an entry of the old table; the new one does not have   *)
(* its key yet.                                                             *)
LEMMA CopyEffect ==
  ASSUME IndInv, ContentsInv, NEW p \in Threads, CopySlot(p),
         NEW k, k = key[rs[p].old][rs[p].bin][ix[p]], k # None
  PROVE  /\ k \in Keys /\ clht_hash(rs[p].old, k) = rs[p].bin
         /\ ix[p] \in SlotsWith(key[rs[p].old][rs[p].bin], k)
         /\ Lookup(rs[p].old, k) # None
         /\ Stores(rs[p].new, k, Lookup(rs[p].old, k))
<1> DEFINE t == rs[p].old
           b == rs[p].bin
           u == rs[p].new
           c == clht_hash(u, k)
           v == Lookup(t, k)
<1>1. /\ pc[p] = "copy" /\ t \in Tables /\ b \in Bins /\ u \in Tables
      /\ TablesOK /\ ChainsOK
  BY Resizer, ChainsFromTables DEF CopySlot, Copying, IndInv, TypeOK
<1>2. ix[p] \in 1..Len(key[t][b])
  BY <1>1, LenType, Thread DEF IndInv, InRange
<1>3. k \in Keys
  <2>1. key[t][b] \in Seq(Keys \cup {None})
    BY <1>1 DEF ChainsOK
  <2> QED
    BY <1>2, <2>1
<1>4. clht_hash(t, k) = b /\ val[t][b][ix[p]] # None
  BY <1>1, <1>2 DEF ContentsInv, KeysInPlace
<1>5. ix[p] \in SlotsWith(key[t][b], k)
  BY <1>2 DEF SlotsWith
<1>6. v = val[t][b][ix[p]] /\ v # None
  BY <1>1, <1>3, <1>4, <1>5, LookupSlot DEF ContentsInv
<1>7. ~CopiedKey(p, k)
  <2>1. ASSUME NEW i \in SlotsWith(key[t][b], k) PROVE i = ix[p]
    BY <1>1, <1>2, <2>1 DEF ContentsInv, UniqueKeys, SlotsWith
  <2>2. ~Copied(p, b, ix[p])
    BY <1>1, <1>2 DEF Copied, Bins
  <2> QED
    BY <1>4, <2>1, <2>2 DEF CopiedKey
<1>8. SlotsWith(key[u][c], k) = {}
  <2>1. Lookup(u, k) = None
    BY <1>1, <1>3, <1>7 DEF ContentsInv, CopyFaithful, Copying
  <2> QED
    BY <1>1, <1>3, <2>1, Absent DEF ContentsInv
<1>9. PutSeq(u, k, v) /\ c \in Bins /\ v \in Vals \cup {None}
  <2>1. PutSeq(u, k, val[t][b][ix[p]])
    BY DEF CopySlot
  <2>2. val[t][b] \in Seq(Vals \cup {None}) /\ ix[p] \in 1..Len(val[t][b])
    BY <1>1, <1>2, LenType DEF ChainsOK
  <2>3. c \in Bins
    BY <1>1, <1>3, HashInRange, KeysAssumption
  <2>4. val[t][b][ix[p]] \in Vals \cup {None}
    BY <2>2
  <2> QED
    BY <1>6, <2>1, <2>3, <2>4
<1>10. ASSUME NEW i, Placed(key[u][c], val[u][c], key'[u][c], val'[u][c], i, k, v),
              Elsewhere(u, c)
       PROVE  Stores(u, k, v)
  BY <1>8, <1>10 DEF Stores
<1> HIDE DEF c, v
<1>11. CASE SlotsWith(key[u][c], None) = {}
  <2>1. /\ key' = [key EXCEPT ![u][c] = @ \o NewBucket(k)]
        /\ val' = [val EXCEPT ![u][c] = @ \o NewBucket(v)]
    BY <1>9, <1>11 DEF PutSeq, c
  <2> QED
    BY <1>1, <1>3, <1>4, <1>5, <1>6, <1>9, <1>10, <2>1, LinkedBucket DEF v
<1>12. CASE SlotsWith(key[u][c], None) # {}
  <2>1. PICK i \in SlotsWith(key[u][c], None) :
          /\ key' = [key EXCEPT ![u][c][i] = k]
          /\ val' = [val EXCEPT ![u][c][i] = v]
    BY <1>9, <1>12 DEF PutSeq, c
  <2>2. i \in 1..Len(key[u][c]) /\ key[u][c][i] = None
    BY DEF SlotsWith
  <2>3. /\ Elsewhere(u, c)
        /\ Placed(key[u][c], val[u][c], key'[u][c], val'[u][c], i, k, v)
    BY <1>1, <1>3, <1>9, <2>1, <2>2, WrittenSlot
  <2> QED
    BY <1>3, <1>4, <1>5, <1>6, <1>10, <2>3 DEF v
<1> QED
  BY <1>11, <1>12

(* No other action changes a chain.                                         *)
Writes(p) == PutVal(p) \/ PutKey(p) \/ PutLink(p) \/ RemoveKey(p)
             \/ (CopySlot(p) /\ key[rs[p].old][rs[p].bin][ix[p]] # None)

(* No other step changes an entry.                                          *)
LEMMA NoEffect ==
  ASSUME NEW p \in Threads, Invoke(p) \/ Work(p), ~Writes(p)
  PROVE  UNCHANGED <<key, val>>
<1>1. CASE CopySlot(p)
  BY <1>1 DEF CopySlot, Writes
<1>2. CASE ~CopySlot(p)
  BY <1>2 DEF Writes, Invoke, Work, Get, Exists, Lock, Put, Remove, Release, Status, Resize,
     Return, shared, GetVal, GetKey, GetCheck, GetNext, ExistsKey, ExistsNext,
     LockAcquire, LockResized, AwaitNewTable, Reread, PutFound, PutExpand, RemoveMiss,
     StatusLock, Count, StatusUnlock, ResizeOld, ResizeBusy, ResizeStart, MarkBucket,
     MarkedBefore, Swap, Publish, ResizeUnlock
<1> QED
  BY <1>1, <1>2

(* Sizes change only when a table is created, and with the chains never.    *)
LEMMA SizesChange ==
  ASSUME NEW p \in Threads, Invoke(p) \/ Work(p), ~ResizeStart(p)
  PROVE  num_buckets' = num_buckets /\ ntables' = ntables
  BY DEF Invoke, Work, Get, Exists, Lock, Put, Remove, Release, Status, Resize,
     Return, shared, GetVal, GetKey, GetCheck, GetNext, ExistsKey, ExistsNext,
     LockAcquire, LockResized, AwaitNewTable, Reread, PutFound, PutVal, PutKey,
     PutExpand, PutLink, RemoveKey, RemoveMiss, StatusLock, Count, StatusUnlock,
     ResizeOld, ResizeBusy, MarkBucket, MarkedBefore, CopySlot, Swap, Publish, ResizeUnlock
-----------------------------------------------------------------------------
(* What a step changes in what the tables answer.                           *)
Kept == \A u \in Tables, x \in Keys : Lookup(u, x)' = Lookup(u, x)
Changed(t, k, v) ==
  \A u \in Tables, x \in Keys : Lookup(u, x)' = IF u = t /\ x = k THEN v ELSE Lookup(u, x)

(* A table that does not exist has no entries, whatever size it will have.  *)
LEMMA FreshLookup ==
  ASSUME FreshTables, TablesOK, NEW t \in Tables, t > ntables, NEW k \in Keys
  PROVE  Lookup(t, k) = None
<1> DEFINE b == clht_hash(t, k)
<1>1. b \in Bins /\ k # None
  BY HashInRange, KeysAssumption
<1>2. key[t][b] = EmptyChain
  BY <1>1 DEF FreshTables
<1>3. SlotsWith(EmptyChain, k) = {}
  BY <1>1, EntriesAssumption DEF SlotsWith, EmptyChain
<1> QED
  BY <1>2, <1>3 DEF Lookup

(* The creation of a table changes no answer.                               *)
LEMMA CreateLookup ==
  ASSUME IndInv, ContentsInv, NEW p \in Threads, ResizeStart(p)
  PROVE  Kept /\ UniqueKeys'
<1>1. UNCHANGED <<key, val>> /\ ntables' = ntables + 1
  BY DEF ResizeStart
<1>2. UniqueKeys'
  BY <1>1 DEF ContentsInv, UniqueKeys
<1>3. ASSUME NEW u \in Tables, NEW x \in Keys PROVE Lookup(u, x)' = Lookup(u, x)
  <2>1. CASE u # ntables + 1
    <3>1. num_buckets'[u] = num_buckets[u]
      BY <2>1 DEF ResizeStart, IndInv, TypeOK, TablesOK
    <3> QED
      BY <1>1, <3>1 DEF Lookup, clht_hash
  <2>2. CASE u = ntables + 1
    <3>1. u > ntables
      BY <2>2 DEF IndInv, TypeOK, TablesOK, Tables
    <3>2. Lookup(u, x) = None
      BY <3>1, FreshLookup DEF IndInv, TypeOK, ContentsInv
    <3>3. key'[u] = key[u] /\ num_buckets'[u] \in 1..MaxBuckets
      BY <1>1, ScalarsStep DEF ScalarsOK, Work, Resize
    <3>4. x # None /\ x \in Nat /\ clht_hash(u, x)' \in Bins
      <4>1. x \in Nat /\ x # None
        BY KeysAssumption
      <4>2. ASSUME NEW n \in 1..MaxBuckets PROVE x % n \in 0..(MaxBuckets - 1)
        BY <4>1, BoundsAssumption
      <4> QED
        BY <3>3, <4>1, <4>2 DEF clht_hash, Bins
    <3>5. key'[u][clht_hash(u, x)'] = EmptyChain
      BY <3>1, <3>3, <3>4 DEF ContentsInv, FreshTables
    <3>6. SlotsWith(EmptyChain, x) = {}
      BY <3>4, EntriesAssumption DEF SlotsWith, EmptyChain
    <3> QED
      BY <3>2, <3>5, <3>6 DEF Lookup
  <2> QED
    BY <2>1, <2>2
<1> QED
  BY <1>2, <1>3 DEF Kept

(* Updates hit the current table, and put a key it does not have.           *)
LEMMA UpdateLookup ==
  ASSUME IndInv, ContentsInv, NEW p \in Threads
  PROVE  /\ PutVal(p) => Kept /\ UniqueKeys'
         /\ PutKey(p) \/ PutLink(p) =>
              /\ UniqueKeys' /\ tab[p] = ht /\ Lookup(ht, call[p].key) = None
              /\ Changed(ht, call[p].key, call[p].val)
         /\ RemoveKey(p) =>
              /\ UniqueKeys' /\ tab[p] = ht
              /\ Changed(ht, call[p].key, None)
<1>1. TablesOK /\ UniqueKeys /\ KeysInPlace /\ ht \in Tables
  BY DEF IndInv, TypeOK, TablesOK, ContentsInv
<1>2. pc[p] \in Updating => tab[p] = ht /\ call[p].key \in Keys
  BY OnCurrent, Caller DEF UpdatesHitCurrentTable, IndInv, ContentsInv, Updating
<1>3. PutVal(p) => Kept /\ UniqueKeys'
  <2> SUFFICES ASSUME PutVal(p) PROVE Kept /\ UniqueKeys'
    OBVIOUS
  <2>1. tab[p] \in Tables /\ Bin(p) \in Bins /\ num_buckets' = num_buckets
    BY Thread DEF IndInv, PutVal
  <2> QED
    BY <1>1, <2>1, PutValEffect, PrepareLookup DEF Kept
<1>4. ASSUME PutKey(p) \/ PutLink(p)
      PROVE  /\ UniqueKeys' /\ tab[p] = ht /\ Lookup(ht, call[p].key) = None
             /\ Changed(ht, call[p].key, call[p].val)
  <2>1. /\ pc[p] \in Updating /\ num_buckets' = num_buckets
        /\ Stores(tab[p], call[p].key, call[p].val)
    BY <1>4, PutKeyEffect, PutLinkEffect DEF PutKey, PutLink, Updating
  <2>2. tab[p] = ht /\ call[p].key \in Keys
    BY <1>2, <2>1
  <2>3. Lookup(ht, call[p].key) = None
    BY <1>1, <2>1, <2>2, Absent DEF Stores
  <2> QED
    BY <1>1, <2>1, <2>2, <2>3, StoreLookup DEF Changed
<1>5. ASSUME RemoveKey(p)
      PROVE  UniqueKeys' /\ tab[p] = ht /\ Changed(ht, call[p].key, None)
  <2>1. /\ pc[p] \in Updating /\ num_buckets' = num_buckets
        /\ Deletes(tab[p], call[p].key)
    BY <1>5, RemoveEffect DEF RemoveKey, Updating
  <2> QED
    BY <1>1, <1>2, <2>1, DeleteLookup DEF Changed
<1> QED
  BY <1>3, <1>4, <1>5

(* Copying an entry makes the new table answer as the old one.              *)
LEMMA CopyLookup ==
  ASSUME IndInv, ContentsInv, NEW p \in Threads, CopySlot(p),
         NEW k, k = key[rs[p].old][rs[p].bin][ix[p]], k # None
  PROVE  /\ UniqueKeys' /\ rs[p].old = ht /\ rs[p].new = ht + 1
         /\ Changed(ht + 1, k, Lookup(ht, k))
<1>1. /\ rs[p].old = ht /\ rs[p].new = ht + 1 /\ rs[p].new \in Tables
  BY Resizer DEF CopySlot, Copying
<1>2. TablesOK /\ UniqueKeys /\ num_buckets' = num_buckets
  BY DEF IndInv, TypeOK, ContentsInv, CopySlot
<1>3. k \in Keys /\ Stores(rs[p].new, k, Lookup(rs[p].old, k))
  BY CopyEffect
<1> QED
  BY <1>1, <1>2, <1>3, StoreLookup DEF Changed

(* Every other step leaves all answers as they are.                         *)
LEMMA StepLookup ==
  ASSUME IndInv, ContentsInv, NEW p \in Threads, Invoke(p) \/ Work(p),
         ~Writes(p) \/ PutVal(p)
  PROVE  Kept /\ UniqueKeys'
<1>1. CASE ResizeStart(p)
  BY <1>1, CreateLookup
<1>2. CASE PutVal(p)
  BY <1>2, UpdateLookup
<1>3. CASE ~ResizeStart(p) /\ ~PutVal(p)
  <2>1. UNCHANGED <<key, val, num_buckets>>
    BY <1>3, NoEffect, SizesChange
  <2> QED
    BY <2>1 DEF Kept, Lookup, clht_hash, ContentsInv, UniqueKeys
<1> QED
  BY <1>1, <1>2, <1>3
-----------------------------------------------------------------------------
(* Every key is in its bucket and has a value.                              *)
LEMMA StoreKeys ==
  ASSUME TablesOK, KeysInPlace, num_buckets' = num_buckets,
         NEW t \in Tables, NEW k \in Keys, NEW v, v # None, Stores(t, k, v)
  PROVE  KeysInPlace'
<1> DEFINE b == clht_hash(t, k)
<1>1. b \in Bins
  BY KeysAssumption, HashInRange
<1>2. PICK i : Placed(key[t][b], val[t][b], key'[t][b], val'[t][b], i, k, v)
  BY DEF Stores
<1> SUFFICES ASSUME NEW u \in Tables, NEW c \in Bins, NEW j \in 1..Len(key'[u][c]),
                    key'[u][c][j] # None
             PROVE  clht_hash(u, key'[u][c][j]) = c /\ val'[u][c][j] # None
  BY DEF KeysInPlace, clht_hash
<1>3. CASE u # t \/ c # b
  <2>1. key'[u][c] = key[u][c] /\ val'[u][c] = val[u][c]
    BY <1>3 DEF Stores, Elsewhere
  <2> QED
    BY <2>1 DEF KeysInPlace
<1>4. CASE u = t /\ c = b
  <2>1. CASE j = i
    BY <1>2, <1>4, <2>1 DEF Placed
  <2>2. CASE j # i
    <3>1. j \in 1..Len(key[t][b]) /\ key'[t][b][j] = key[t][b][j] /\ val'[t][b][j] = val[t][b][j]
      BY <1>2, <1>4, <2>2 DEF Placed
    <3> QED
      BY <1>1, <1>4, <3>1 DEF KeysInPlace
  <2> QED
    BY <2>1, <2>2
<1> QED
  BY <1>3, <1>4

(* A key that goes leaves the others where they are.                        *)
LEMMA DeleteKeys ==
  ASSUME TablesOK, KeysInPlace, num_buckets' = num_buckets,
         NEW t \in Tables, NEW k \in Keys, Deletes(t, k)
  PROVE  KeysInPlace'
<1> DEFINE b == clht_hash(t, k)
<1>1. b \in Bins
  BY KeysAssumption, HashInRange
<1>2. PICK i \in SlotsWith(key[t][b], k) : Cleared(key[t][b], key'[t][b], i)
  BY DEF Deletes
<1> SUFFICES ASSUME NEW u \in Tables, NEW c \in Bins, NEW j \in 1..Len(key'[u][c]),
                    key'[u][c][j] # None
             PROVE  clht_hash(u, key'[u][c][j]) = c /\ val'[u][c][j] # None
  BY DEF KeysInPlace, clht_hash
<1>3. val' = val
  BY DEF Deletes
<1>4. CASE u # t \/ c # b
  <2>1. key'[u][c] = key[u][c]
    BY <1>4 DEF Deletes, Elsewhere
  <2> QED
    BY <1>3, <2>1 DEF KeysInPlace
<1>5. CASE u = t /\ c = b
  <2>1. j # i /\ j \in 1..Len(key[t][b]) /\ key'[t][b][j] = key[t][b][j]
    BY <1>2, <1>5 DEF Cleared
  <2> QED
    BY <1>1, <1>3, <1>5, <2>1 DEF KeysInPlace
<1> QED
  BY <1>4, <1>5

(* Every step keeps each key in its bucket.                                 *)
LEMMA KeysStep ==
  ASSUME IndInv, ContentsInv, NEW p \in Threads, Invoke(p) \/ Work(p)
  PROVE  KeysInPlace'
<1>1. TablesOK /\ KeysInPlace /\ UniqueKeys /\ FreshTables
  BY DEF IndInv, TypeOK, ContentsInv
<1>2. CASE PutKey(p) \/ PutLink(p) \/ RemoveKey(p)
  <2>1. /\ pc[p] # "idle" /\ num_buckets' = num_buckets
        /\ PutKey(p) \/ PutLink(p) => call[p].op = "put"
    BY <1>2 DEF PutKey, PutLink, RemoveKey, ContentsInv, Phases
  <2>2. /\ call[p].key \in Keys /\ tab[p] \in Tables
        /\ PutKey(p) \/ PutLink(p) => call[p].val \in Vals
    BY <2>1, Caller, Thread DEF IndInv, ContentsInv
  <2>3. CASE PutKey(p) \/ PutLink(p)
    <3>1. call[p].val # None
      BY <2>2, <2>3 DEF Vals
    <3>2. Stores(tab[p], call[p].key, call[p].val)
      BY <2>3, PutKeyEffect, PutLinkEffect
    <3> QED
      BY <1>1, <2>1, <2>2, <3>1, <3>2, StoreKeys
  <2>4. CASE RemoveKey(p)
    BY <1>1, <2>1, <2>2, <2>4, RemoveEffect, DeleteKeys
  <2> QED
    BY <1>2, <2>3, <2>4
<1>3. CASE CopySlot(p) /\ key[rs[p].old][rs[p].bin][ix[p]] # None
  <2> DEFINE k == key[rs[p].old][rs[p].bin][ix[p]]
  <2>1. /\ k \in Keys /\ Lookup(rs[p].old, k) # None
        /\ Stores(rs[p].new, k, Lookup(rs[p].old, k))
    BY <1>3, CopyEffect
  <2>2. rs[p].new \in Tables /\ num_buckets' = num_buckets
    BY <1>3, Resizer DEF CopySlot, Copying
  <2> QED
    BY <1>1, <2>1, <2>2, StoreKeys
<1>4. CASE PutVal(p)
  <2>1. tab[p] \in Tables /\ Bin(p) \in Bins /\ num_buckets' = num_buckets /\ key' = key
    BY <1>4, Thread DEF IndInv, PutVal
  <2>2. \A u \in Tables, c \in Bins : \A j \in 1..Len(key[u][c]) :
          key[u][c][j] # None => val'[u][c][j] = val[u][c][j]
    BY <1>1, <1>4, <2>1, PutValEffect, PrepareLookup
  <2> QED
    BY <1>1, <2>1, <2>2 DEF KeysInPlace, clht_hash
<1>5. CASE ~Writes(p)
  <2>1. UNCHANGED <<key, val>>
    BY <1>5, NoEffect
  <2>2. CASE ~ResizeStart(p)
    BY <1>1, <2>1, <2>2, SizesChange DEF KeysInPlace, clht_hash
  <2>3. CASE ResizeStart(p)
    <3> SUFFICES ASSUME NEW u \in Tables, NEW c \in Bins, NEW j \in 1..Len(key[u][c]),
                        key[u][c][j] # None
                 PROVE  clht_hash(u, key[u][c][j])' = c /\ val[u][c][j] # None
      BY <2>1 DEF KeysInPlace, clht_hash
    <3>1. u # ntables + 1
      <4>1. ASSUME u = ntables + 1 PROVE FALSE
        <5>1. key[u][c] = EmptyChain
          BY <1>1, <4>1 DEF FreshTables, TablesOK, Tables
        <5> QED
          BY <5>1, EntriesAssumption DEF EmptyChain
      <4> QED
        BY <4>1
    <3>2. num_buckets'[u] = num_buckets[u]
      BY <1>1, <2>3, <3>1 DEF ResizeStart, TablesOK
    <3> QED
      BY <1>1, <2>1, <3>2 DEF KeysInPlace, clht_hash
  <2> QED
    BY <2>2, <2>3
<1> QED
  BY <1>2, <1>3, <1>4, <1>5 DEF Writes

(* Tables that do not exist stay empty.                                     *)
LEMMA FreshStep ==
  ASSUME IndInv, ContentsInv, NEW p \in Threads, Invoke(p) \/ Work(p)
  PROVE  FreshTables'
<1>1. TablesOK /\ FreshTables /\ ht <= ntables /\ ntables \in Nat /\ ht \in Nat
  BY DEF IndInv, TypeOK, TablesOK, Tables, ContentsInv
<1>2. ASSUME NEW u \in Tables, u <= ntables, NEW b, Elsewhere(u, b), ntables' = ntables
      PROVE  FreshTables'
  BY <1>1, <1>2 DEF FreshTables, Elsewhere, Tables
<1>3. CASE PutKey(p) \/ PutLink(p) \/ RemoveKey(p)
  <2>1. tab[p] \in Tables /\ tab[p] <= ntables
    <3>1. tab[p] \in Tables /\ tab[p] <= ht /\ tab[p] \in Nat
      BY Thread DEF IndInv, OldTablesMarked, Tables
    <3> QED
      BY <1>1, <3>1
  <2>2. ntables' = ntables /\ Elsewhere(tab[p], clht_hash(tab[p], call[p].key))
    BY <1>3, PutKeyEffect, PutLinkEffect, RemoveEffect
    DEF Stores, Deletes, PutKey, PutLink, RemoveKey
  <2> QED
    BY <1>2, <2>1, <2>2
<1>4. CASE CopySlot(p) /\ key[rs[p].old][rs[p].bin][ix[p]] # None
  <2> DEFINE k == key[rs[p].old][rs[p].bin][ix[p]]
  <2>1. Stores(rs[p].new, k, Lookup(rs[p].old, k))
    BY <1>4, CopyEffect
  <2>2. /\ rs[p].new \in Tables /\ rs[p].new <= ntables /\ ntables' = ntables
    <3>1. rs[p].new \in Tables /\ rs[p].new = ntables
      BY <1>4, Resizer DEF CopySlot, Copying
    <3> QED
      BY <1>1, <1>4, <3>1 DEF CopySlot
  <2> QED
    BY <1>2, <2>1, <2>2 DEF Stores
<1>5. CASE PutVal(p)
  BY <1>1, <1>5 DEF PutVal, FreshTables
<1>6. CASE ~Writes(p)
  <2>1. key' = key
    BY <1>6, NoEffect
  <2>2. ntables' = ntables \/ ntables' = ntables + 1
    BY SizesChange DEF ResizeStart
  <2> QED
    BY <1>1, <2>1, <2>2 DEF FreshTables, Tables
<1> QED
  BY <1>3, <1>4, <1>5, <1>6 DEF Writes
-----------------------------------------------------------------------------
(* The thread that copies: what it has done before and after a step.        *)

(* lock_acq_resize never meets a mark: it was set by a resize that is over, *)
(* of an older table, or by this one, on a bucket it has passed.            *)
LEMMA NeverMarkedBefore ==
  ASSUME IndInv, MarksOfResizer, NEW p \in Threads
  PROVE  ~MarkedBefore(p)
<1> SUFFICES ASSUME MarkedBefore(p) PROVE FALSE
  OBVIOUS
<1>1. /\ pc[p] = "marking" /\ rs[p].old = ht /\ rs[p].bin \in Bins /\ ht \in Tables
      /\ lock[ht][rs[p].bin] = LOCK_RESIZE
  BY Resizer DEF MarkedBefore, Copying
<1>2. PICK q \in Threads : pc[q] \in Copying /\ Passed(q, rs[p].bin)
  BY <1>1 DEF MarksOfResizer, Tables
<1>3. q = p
  BY <1>1, <1>2 DEF IndInv, OneResizer, Resizing, Copying
<1> QED
  BY <1>1, <1>2, <1>3 DEF Passed, Bins

(* A thread that copies marks, copies or swaps, and gets there only by the  *)
(* start of a resize.                                                       *)
LEMMA CopyingSteps ==
  ASSUME IndInv, MarksOfResizer, NEW p \in Threads, Invoke(p) \/ Work(p)
  PROVE  /\ pc[p] \in Copying => MarkBucket(p) \/ CopySlot(p) \/ Swap(p)
         /\ pc'[p] \in Copying => MarkBucket(p) \/ CopySlot(p) \/ ResizeStart(p)
<1>1. ~MarkedBefore(p)
  BY NeverMarkedBefore
<1>2. pc \in [Threads -> Labels]
  BY DEF IndInv, TypeOK, ThreadsOK
<1>3. CASE ResizeStart(p) \/ Publish(p) \/ ResizeUnlock(p) \/ Swap(p)
  <2>1. pc[p] \in Copying => Swap(p)
    BY <1>3 DEF ResizeStart, Publish, ResizeUnlock, Copying
  <2>2. pc'[p] \in Copying => ResizeStart(p)
    BY <1>2, <1>3 DEF Publish, ResizeUnlock, Swap, Copying, Goto
  <2> QED
    BY <2>1, <2>2
<1>4. CASE MarkBucket(p) \/ CopySlot(p)
  BY <1>4 DEF MarkBucket, CopySlot, Copying
<1>5. CASE ~(ResizeStart(p) \/ Publish(p) \/ ResizeUnlock(p) \/ Swap(p)
             \/ MarkBucket(p) \/ CopySlot(p))
  BY <1>1, <1>5, ResizeStands DEF Resizing
<1> QED
  BY <1>3, <1>4, <1>5

(* A copied slot, and the bucket after the last one, advance the resize.    *)
LEMMA CopyMoves ==
  ASSUME IndInv, NEW p \in Threads, CopySlot(p)
  PROVE  /\ pc'[p] \in Copying
         /\ rs'[p].old = rs[p].old /\ rs'[p].new = rs[p].new
         /\ \A b \in Bins : Passed(p, b) => Passed(p, b)'
         /\ \A b \in Bins : \A i \in 1..Len(key[rs[p].old][b]) :
              Copied(p, b, i)' <=> Copied(p, b, i) \/ (b = rs[p].bin /\ i = ix[p])
         /\ pc'[p] = "swap" => rs'[p].bin + 1 = num_buckets[rs[p].old]
<1> DEFINE n == Len(key[rs[p].old][rs[p].bin])
<1>1. /\ pc \in [Threads -> Labels] /\ ix \in [Threads -> Nat \ {0}]
      /\ rs \in [Threads -> ResizeLocals] /\ pc[p] = "copy"
  BY DEF IndInv, TypeOK, ThreadsOK, CopySlot
<1>2. /\ rs[p].bin \in Nat /\ rs[p].bin < num_buckets[rs[p].old]
      /\ num_buckets[rs[p].old] \in Nat /\ n \in Nat /\ ix[p] \in 1..n
  <2>1. rs[p].old \in Tables /\ rs[p].bin \in Bins /\ ChainsOK
    BY <1>1, Resizer, Thread DEF Copying, IndInv
  <2>2. n \in Nat
    BY <2>1, LenType
  <2> QED
    BY <1>1, <2>1, <2>2 DEF IndInv, InRange, Bins, TypeOK, TablesOK
<1>3. CASE ix[p] < n
  <2>1. ix'[p] = ix[p] + 1 /\ UNCHANGED <<pc, rs>>
    BY <1>1, <1>3 DEF CopySlot
  <2> QED
    BY <1>1, <1>2, <2>1 DEF Passed, Copied, Copying
<1>4. CASE ~(ix[p] < n) /\ rs[p].bin + 1 < num_buckets[rs[p].old]
  <2>1. /\ pc'[p] = "marking" /\ rs'[p].bin = rs[p].bin + 1
        /\ rs'[p].old = rs[p].old /\ rs'[p].new = rs[p].new
    BY <1>1, <1>4 DEF CopySlot, NextBucket, Goto, ResizeLocals
  <2>2. ASSUME NEW b \in Bins, NEW i \in 1..Len(key[rs[p].old][b])
        PROVE  Copied(p, b, i)' <=> Copied(p, b, i) \/ (b = rs[p].bin /\ i = ix[p])
    <3>1. b \in Nat
      BY DEF Bins
    <3>2. CASE b = rs[p].bin
      <4>1. i <= n
        BY <3>2
      <4> QED
        BY <1>1, <1>2, <1>4, <2>1, <3>2, <4>1 DEF Copied
    <3>3. CASE b # rs[p].bin
      BY <1>1, <1>2, <2>1, <3>1, <3>3 DEF Copied
    <3> QED
      BY <3>2, <3>3
  <2>3. \A b \in Bins : Passed(p, b) => Passed(p, b)'
    BY <1>2, <2>1 DEF Passed, Bins
  <2> QED
    BY <2>1, <2>2, <2>3 DEF Copying
<1>5. CASE ~(ix[p] < n) /\ ~(rs[p].bin + 1 < num_buckets[rs[p].old])
  <2>1. pc'[p] = "swap" /\ rs' = rs /\ rs[p].bin + 1 = num_buckets[rs[p].old]
    BY <1>1, <1>2, <1>5 DEF CopySlot, NextBucket, Goto
  <2>2. ASSUME NEW b \in Bins, NEW i \in 1..Len(key[rs[p].old][b])
        PROVE  Copied(p, b, i)' <=> Copied(p, b, i) \/ (b = rs[p].bin /\ i = ix[p])
    <3>1. CASE b = rs[p].bin
      <4>1. i <= n
        BY <3>1
      <4> QED
        BY <1>1, <1>2, <1>5, <2>1, <3>1, <4>1 DEF Copied
    <3>2. CASE b # rs[p].bin
      BY <1>1, <2>1, <3>2 DEF Copied
    <3> QED
      BY <3>1, <3>2
  <2>3. \A b \in Bins : Passed(p, b) => Passed(p, b)'
    BY <1>1, <2>1 DEF Passed
  <2> QED
    BY <2>1, <2>2, <2>3 DEF Copying
<1> QED
  BY <1>3, <1>4, <1>5

(* The marks of the current table are still those of the resize that runs.  *)
LEMMA MarkersStep ==
  ASSUME IndInv, ContentsInv, NEW p \in Threads, Invoke(p) \/ Work(p)
  PROVE  MarksOfResizer'
<1>1. /\ TypeOK /\ ScalarsOK /\ MarksOfResizer /\ ht \in Nat
      /\ pc \in [Threads -> Labels] /\ rs \in [Threads -> ResizeLocals]
  <2>1. TypeOK /\ ScalarsOK
    BY TablesParts DEF IndInv, TypeOK
  <2> QED
    BY <2>1 DEF TypeOK, ThreadsOK, ContentsInv, ScalarsOK, Tables
<1>2. ht' = ht \/ (Swap(p) /\ ht' = ht + 1)
  BY SizesStay
<1>3. ASSUME NEW q \in Threads, q # p PROVE pc'[q] = pc[q] /\ rs'[q] = rs[q]
  BY <1>1, <1>3, OthersStand DEF Stands
<1> SUFFICES ASSUME NEW t \in Tables, NEW b \in Bins, lock'[t][b] = LOCK_RESIZE
             PROVE  t < ht' \/ (t = ht' /\ \E q \in Threads : pc'[q] \in Copying /\ Passed(q, b)')
  BY DEF MarksOfResizer
<1>4. CASE MarkBucket(p) /\ t = rs[p].old /\ b = rs[p].bin
  <2>1. rs[p].old = ht /\ ht' = ht /\ pc'[p] = "copy" /\ rs' = rs
    BY <1>1, <1>4, Resizer DEF MarkBucket, Copying, Goto, resizing
  <2> QED
    BY <1>4, <2>1 DEF Copying, Passed
<1>5. CASE ~(MarkBucket(p) /\ t = rs[p].old /\ b = rs[p].bin)
  <2>1. lock[t][b] = LOCK_RESIZE
    <3>1. CASE LockAcquire(p) \/ Release(p)
      <4>1. tab[p] \in Tables /\ Bin(p) \in Bins
        BY <1>1, Thread
      <4> QED
        BY <1>1, <3>1, <4>1
        DEF LockAcquire, Release, ScalarsOK, LOCK_FREE, LOCK_UPDATE, LOCK_RESIZE
    <3>2. CASE MarkBucket(p)
      BY <1>1, <1>5, <3>2 DEF MarkBucket, ScalarsOK
    <3>3. CASE ~LockAcquire(p) /\ ~Release(p) /\ ~MarkBucket(p)
      BY <3>3, LocksStand
    <3> QED
      BY <3>1, <3>2, <3>3
  <2>2. CASE t < ht
    BY <1>1, <1>2, <2>2 DEF Tables
  <2>3. CASE ~(t < ht)
    <3>1. t = ht
      BY <1>1, <2>1, <2>3 DEF MarksOfResizer
    <3>2. PICK q \in Threads : pc[q] \in Copying /\ Passed(q, b)
      BY <1>1, <2>1, <2>3 DEF MarksOfResizer
    <3>3. CASE q # p
      <4>1. ~Swap(p)
        BY <3>2, <3>3 DEF Swap, Copying, Resizing, IndInv, OneResizer
      <4> QED
        BY <1>2, <1>3, <3>1, <3>2, <3>3, <4>1 DEF Passed
    <3>4. CASE q = p /\ MarkBucket(p)
      <4>1. pc'[p] = "copy" /\ rs' = rs /\ pc[p] = "marking" /\ ht' = ht
        BY <1>1, <3>4 DEF MarkBucket, Goto, resizing
      <4> QED
        BY <3>1, <3>2, <3>4, <4>1 DEF Passed, Copying
    <3>5. CASE q = p /\ CopySlot(p)
      BY <3>1, <3>2, <3>5, CopyMoves DEF CopySlot
    <3>6. CASE Swap(p)
      <4>1. ht' = ht + 1
        BY <3>6, Resizer DEF Swap, Copying
      <4> QED
        BY <1>1, <3>1, <4>1
    <3> QED
      BY <1>1, <3>2, <3>3, <3>4, <3>5, <3>6, CopyingSteps
  <2> QED
    BY <2>2, <2>3
<1> QED
  BY <1>4, <1>5
-----------------------------------------------------------------------------
(* The slots of a key, after an entry came in and after one went.           *)
Slots(t, k) == SlotsWith(key[t][clht_hash(t, k)], k)
SlotsStay(t, k) ==
  LET b == clht_hash(t, k)
  IN  /\ num_buckets'[t] = num_buckets[t]
      /\ SlotsWith(key'[t][b], k) = SlotsWith(key[t][b], k)
      /\ \A i \in SlotsWith(key[t][b], k) : val'[t][b][i] = val[t][b][i]

(* An entry that comes in leaves the slots of the other keys, ...           *)
LEMMA StoreSlots ==
  ASSUME TablesOK, num_buckets' = num_buckets,
         NEW t \in Tables, NEW k \in Keys, NEW v, Stores(t, k, v)
  PROVE  \A u \in Tables, x \in Keys : u # t \/ x # k => SlotsStay(u, x)
<1> DEFINE b == clht_hash(t, k)
<1>1. k # None /\ b \in Bins
  BY KeysAssumption, HashInRange
<1>2. PICK i : Placed(key[t][b], val[t][b], key'[t][b], val'[t][b], i, k, v)
  BY DEF Stores
<1> SUFFICES ASSUME NEW u \in Tables, NEW x \in Keys, u # t \/ x # k
             PROVE  SlotsStay(u, x)
  OBVIOUS
<1> DEFINE c == clht_hash(u, x)
<1>3. x # None /\ c \in Bins /\ clht_hash(u, x)' = c
  BY KeysAssumption, HashInRange DEF clht_hash
<1> HIDE DEF b, c
<1>4. /\ SlotsWith(key'[u][c], x) = SlotsWith(key[u][c], x)
      /\ \A j \in SlotsWith(key[u][c], x) : val'[u][c][j] = val[u][c][j]
  <2>1. CASE u # t \/ c # b
    <3>1. key'[u][c] = key[u][c] /\ val'[u][c] = val[u][c]
      BY <1>3, <2>1 DEF Stores, Elsewhere, b
    <3> QED
      BY <3>1
  <2>2. CASE u = t /\ c = b
    <3>1. x # k
      BY <2>2
    <3> QED
      BY <1>1, <1>2, <1>3, <2>2, <3>1, PlacedSlots
  <2> QED
    BY <2>1, <2>2
<1> QED
  BY <1>3, <1>4 DEF SlotsStay, c, clht_hash

(* ... and so does one that goes.                                           *)
LEMMA DeleteSlots ==
  ASSUME TablesOK, UniqueKeys, num_buckets' = num_buckets,
         NEW t \in Tables, NEW k \in Keys, Deletes(t, k)
  PROVE  /\ \A u \in Tables, x \in Keys : u # t \/ x # k => SlotsStay(u, x)
<1> DEFINE b == clht_hash(t, k)
<1>1. k # None /\ b \in Bins
  BY KeysAssumption, HashInRange
<1>2. PICK i \in SlotsWith(key[t][b], k) : Cleared(key[t][b], key'[t][b], i)
  BY DEF Deletes
<1>3. Unique(key[t][b])
  BY <1>1 DEF UniqueKeys, Unique
<1> SUFFICES ASSUME NEW u \in Tables, NEW x \in Keys, u # t \/ x # k
             PROVE  SlotsStay(u, x)
  OBVIOUS
<1> DEFINE c == clht_hash(u, x)
<1>4. x # None /\ c \in Bins /\ clht_hash(u, x)' = c /\ val' = val
  BY KeysAssumption, HashInRange DEF clht_hash, Deletes
<1> HIDE DEF b, c
<1>5. SlotsWith(key'[u][c], x) = SlotsWith(key[u][c], x)
  <2>1. CASE u # t \/ c # b
    <3>1. key'[u][c] = key[u][c]
      BY <1>4, <2>1 DEF Deletes, Elsewhere, b
    <3> QED
      BY <3>1
  <2>2. CASE u = t /\ c = b
    <3>1. x # k
      BY <2>2
    <3> QED
      BY <1>1, <1>2, <1>3, <1>4, <2>2, <3>1, ClearedSlots
  <2> QED
    BY <2>1, <2>2
<1> QED
  BY <1>4, <1>5 DEF SlotsStay, c, clht_hash

(* Which slots of which keys a step leaves alone.                           *)
LEMMA StepSlots ==
  ASSUME IndInv, ContentsInv, NEW p \in Threads, Invoke(p) \/ Work(p)
  PROVE  /\ PutKey(p) \/ PutLink(p) \/ RemoveKey(p) =>
              \A u \in Tables, x \in Keys : u # ht \/ x # call[p].key => SlotsStay(u, x)
         /\ CopySlot(p) /\ key[rs[p].old][rs[p].bin][ix[p]] # None =>
              \A u \in Tables, x \in Keys :
                u # ht + 1 \/ x # key[rs[p].old][rs[p].bin][ix[p]] => SlotsStay(u, x)
         /\ ~Writes(p) \/ PutVal(p) =>
              \A u \in Tables, x \in Keys : u <= ht \/ ~ResizeStart(p) => SlotsStay(u, x)
<1>1. TablesOK /\ UniqueKeys /\ ht \in Tables
  BY DEF IndInv, TypeOK, TablesOK, ContentsInv
<1>2. ASSUME PutKey(p) \/ PutLink(p) \/ RemoveKey(p)
      PROVE  \A u \in Tables, x \in Keys : u # ht \/ x # call[p].key => SlotsStay(u, x)
  <2>1. /\ pc[p] \in Updating /\ pc[p] # "idle" /\ num_buckets' = num_buckets
    BY <1>2 DEF PutKey, PutLink, RemoveKey, Updating
  <2>2. tab[p] = ht /\ call[p].key \in Keys
    BY <2>1, OnCurrent, Caller DEF UpdatesHitCurrentTable, IndInv, ContentsInv
  <2>3. CASE PutKey(p) \/ PutLink(p)
    <3>1. Stores(ht, call[p].key, call[p].val)
      BY <2>2, <2>3, PutKeyEffect, PutLinkEffect
    <3> QED
      BY <1>1, <2>1, <2>2, <3>1, StoreSlots
  <2>4. CASE RemoveKey(p)
    <3>1. Deletes(ht, call[p].key)
      BY <2>2, <2>4, RemoveEffect
    <3> QED
      BY <1>1, <2>1, <2>2, <3>1, DeleteSlots
  <2> QED
    BY <1>2, <2>3, <2>4
<1>3. ASSUME CopySlot(p), NEW k, k = key[rs[p].old][rs[p].bin][ix[p]], k # None
      PROVE  \A u \in Tables, x \in Keys : u # ht + 1 \/ x # k => SlotsStay(u, x)
  <2>1. rs[p].new = ht + 1 /\ rs[p].new \in Tables /\ num_buckets' = num_buckets
    BY <1>3, Resizer DEF CopySlot, Copying
  <2>2. k \in Keys /\ Stores(rs[p].new, k, Lookup(rs[p].old, k))
    BY <1>3, CopyEffect
  <2> QED
    BY <1>1, <2>1, <2>2, StoreSlots
<1>4. ASSUME ~Writes(p) \/ PutVal(p), NEW u \in Tables, NEW x \in Keys, u <= ht \/ ~ResizeStart(p)
      PROVE  SlotsStay(u, x)
  <2>1. num_buckets'[u] = num_buckets[u]
    BY <1>4, SizesStay, SizesChange
  <2>2. key' = key
    BY <1>4, NoEffect DEF PutVal
  <2>3. x # None /\ clht_hash(u, x) \in Bins /\ clht_hash(u, x)' = clht_hash(u, x)
    BY <1>1, <2>1, KeysAssumption, HashInRange DEF clht_hash
  <2>4. CASE PutVal(p)
    <3>1. tab[p] \in Tables /\ Bin(p) \in Bins /\ num_buckets' = num_buckets
      BY <2>4, Thread DEF IndInv, PutVal
    <3>2. \A c \in Bins : \A j \in 1..Len(key[u][c]) :
            key[u][c][j] # None => val'[u][c][j] = val[u][c][j]
      BY <1>1, <2>4, <3>1, PutValEffect, PrepareLookup
    <3> QED
      BY <2>1, <2>2, <2>3, <3>2 DEF SlotsStay, SlotsWith
  <2>5. CASE ~Writes(p)
    <3>1. val' = val
      BY <2>5, NoEffect
    <3> QED
      BY <2>1, <2>2, <2>3, <3>1 DEF SlotsStay
  <2> QED
    BY <1>4, <2>4, <2>5
<1> QED
  BY <1>2, <1>3, <1>4
-----------------------------------------------------------------------------
(* The new table holds exactly what has been copied: the steps of the       *)
(* others ...                                                               *)
CopyRight(p) ==
  /\ pc[p] = "swap" => rs[p].bin + 1 = num_buckets[rs[p].old]
  /\ \A k \in Keys :
       Lookup(rs[p].new, k) = IF CopiedKey(p, k) THEN Lookup(rs[p].old, k) ELSE None

(* A key whose bucket is not marked yet is not copied yet.                  *)
LEMMA CopiedIsMarked ==
  ASSUME IndInv, NEW q \in Threads, pc[q] \in Copying, NEW k \in Keys, NEW i,
         Copied(q, clht_hash(ht, k), i)
  PROVE  lock[ht][clht_hash(ht, k)] = LOCK_RESIZE
<1>1. clht_hash(ht, k) \in 0..(num_buckets[ht] - 1)
  BY HashInRange, KeysAssumption DEF IndInv, TypeOK, TablesOK
<1>2. \A b \in 0..(num_buckets[ht] - 1) :
        \/ b < rs[q].bin
        \/ pc[q] = "copy" /\ b = rs[q].bin
        \/ pc[q] = "swap"
        => lock[ht][b] = LOCK_RESIZE
  BY DEF IndInv, OneResizer
<1> QED
  BY <1>1, <1>2 DEF Copied

(* A step of another thread keeps what was copied right, ...                *)
LEMMA CopyOther ==
  ASSUME IndInv, ContentsInv, NEW p \in Threads, Invoke(p) \/ Work(p),
         NEW q \in Threads, q # p, pc'[q] \in Copying
  PROVE  CopyRight(q)'
<1>1. Stands(q) /\ pc[q] \in Copying /\ pc'[q] = pc[q] /\ rs'[q] = rs[q]
  BY OthersStand DEF Stands, IndInv
<1>2. PICK t \in Tables, u \in Tables :
        t = ht /\ u = ht + 1 /\ u # t /\ rs[q].old = t /\ rs[q].new = u
  BY <1>1, Resizer DEF Tables
<1>3. pc[p] \notin Resizing /\ resize_lock = LOCK_UPDATE
  BY <1>1 DEF IndInv, OneResizer, Resizing
<1>4. ~ResizeStart(p) /\ ~CopySlot(p) /\ ~Swap(p)
  BY <1>3 DEF Swap, ResizeStart, CopySlot, Resizing, Copying, LOCK_FREE, LOCK_UPDATE
<1>5. num_buckets' = num_buckets
  BY <1>4, SizesChange
<1>6. CopyRight(q)
  BY <1>1 DEF ContentsInv, CopyFaithful, CopyRight
<1>7. ASSUME NEW k \in Keys
      PROVE  Lookup(u, k)' = IF CopiedKey(q, k)' THEN Lookup(t, k)' ELSE None
  <2> DEFINE b == clht_hash(t, k)
  <2>1. Lookup(u, k) = IF CopiedKey(q, k) THEN Lookup(t, k) ELSE None
    BY <1>2, <1>6 DEF CopyRight
  <2>2. /\ CopiedKey(q, k) <=> \E i \in Slots(t, k) : Copied(q, b, i)
        /\ CopiedKey(q, k)' <=> \E i \in Slots(t, k)' : Copied(q, b, i)
    BY <1>1, <1>2, <1>5 DEF CopiedKey, Copied, Slots, clht_hash, Stands
  <2>3. ASSUME Slots(t, k)' = Slots(t, k), Lookup(t, k)' = Lookup(t, k),
               Lookup(u, k)' = Lookup(u, k)
        PROVE  Lookup(u, k)' = IF CopiedKey(q, k)' THEN Lookup(t, k)' ELSE None
    BY <2>1, <2>2, <2>3
  <2>4. CASE PutKey(p) \/ PutLink(p) \/ RemoveKey(p)
    <3>1. Lookup(u, k)' = Lookup(u, k)
      BY <1>2, <2>4, UpdateLookup DEF Changed
    <3>2. CASE k # call[p].key
      <4>1. Slots(t, k)' = Slots(t, k)
        BY <1>2, <2>4, <3>2, StepSlots DEF SlotsStay, Slots, clht_hash
      <4>2. Lookup(t, k)' = Lookup(t, k)
        BY <1>2, <2>4, <3>2, UpdateLookup DEF Changed
      <4> QED
        BY <2>3, <3>1, <4>1, <4>2
    <3>3. CASE k = call[p].key
      <4>1. tab[p] = ht /\ pc[p] \in Updating
        BY <2>4, UpdateLookup DEF PutKey, PutLink, RemoveKey, Updating
      <4>2. lock[ht][b] = LOCK_UPDATE
        BY <1>2, <3>3, <4>1 DEF IndInv, UpdateExclusion, LockOf, Bin
      <4>3. \A i : ~Copied(q, b, i)
        BY <1>1, <1>2, <4>2, CopiedIsMarked DEF LOCK_UPDATE, LOCK_RESIZE
      <4> QED
        BY <2>1, <2>2, <3>1, <4>3
    <3> QED
      BY <3>2, <3>3
  <2>5. CASE ~(PutKey(p) \/ PutLink(p) \/ RemoveKey(p))
    <3>1. ~Writes(p) \/ PutVal(p)
      BY <1>4, <2>5 DEF Writes
    <3>2. Kept /\ Slots(t, k)' = Slots(t, k)
      BY <1>2, <1>4, <3>1, StepLookup, StepSlots DEF SlotsStay, Slots, clht_hash
    <3> QED
      BY <1>2, <2>3, <3>2 DEF Kept
  <2> QED
    BY <2>4, <2>5
<1>8. pc'[q] = "swap" => rs'[q].bin + 1 = num_buckets'[rs'[q].old]
  BY <1>1, <1>5, <1>6 DEF CopyRight
<1> QED
  BY <1>1, <1>2, <1>7, <1>8 DEF CopyRight

(* ... its own: the start with an empty table, ...                          *)
LEMMA CopyStarts ==
  ASSUME IndInv, ContentsInv, NEW p \in Threads, ResizeStart(p)
  PROVE  CopyRight(p)'
<1>1. /\ pc'[p] = "marking" /\ rs'[p].bin = 0 /\ rs'[p].new = ntables + 1
  BY DEF ResizeStart, Goto, IndInv, TypeOK, ThreadsOK, ResizeLocals
<1>2. PICK u \in Tables : u = ntables + 1 /\ u > ntables
  BY BoundsAssumption DEF ResizeStart, IndInv, TypeOK, TablesOK, Tables
<1>3. ASSUME NEW k \in Keys PROVE Lookup(rs[p].new, k)' = None
  <2>1. Lookup(u, k) = None
    BY <1>2, FreshLookup DEF IndInv, TypeOK, ContentsInv
  <2> QED
    BY <1>1, <1>2, <2>1, CreateLookup DEF Kept
<1>4. ASSUME NEW k \in Keys PROVE ~CopiedKey(p, k)'
  <2>1. k \in Nat /\ (num_buckets'[rs'[p].old]) \in Nat \ {0}
    <3>1. ScalarsOK' /\ ThreadsOK'
      BY ScalarsStep, ThreadsStep DEF Work, Resize
    <3> QED
      BY <3>1, KeysAssumption, BoundsAssumption DEF ScalarsOK, ThreadsOK, ResizeLocals
  <2>2. ASSUME NEW n \in Nat \ {0} PROVE ~(k % n < 0)
    BY <2>1, <2>2
  <2>3. ~(clht_hash(rs[p].old, k)' < 0)
    BY <2>1, <2>2 DEF clht_hash
  <2> QED
    BY <1>1, <2>3 DEF CopiedKey, Copied
<1> QED
  BY <1>1, <1>3, <1>4 DEF CopyRight

(* ... the mark of a bucket, ...                                            *)
LEMMA CopyMarks ==
  ASSUME IndInv, ContentsInv, NEW p \in Threads, MarkBucket(p)
  PROVE  CopyRight(p)'
<1>1. /\ pc[p] = "marking" /\ pc'[p] = "copy" /\ rs' = rs /\ ix'[p] = 1
      /\ UNCHANGED <<key, val, num_buckets>>
  BY DEF MarkBucket, Goto, resizing, IndInv, TypeOK, ThreadsOK
<1>2. ASSUME NEW k \in Keys PROVE CopiedKey(p, k)' <=> CopiedKey(p, k)
  <2> DEFINE b == clht_hash(rs[p].old, k)
  <2>1. \A i \in SlotsWith(key[rs[p].old][b], k) : Copied(p, b, i)' <=> Copied(p, b, i)
    BY <1>1 DEF Copied, SlotsWith, clht_hash
  <2> QED
    BY <1>1, <2>1 DEF CopiedKey, clht_hash
<1>3. ASSUME NEW t, NEW k PROVE Lookup(t, k)' = Lookup(t, k)
  BY <1>1 DEF Lookup, clht_hash
<1>4. CopyRight(p)
  BY <1>1 DEF ContentsInv, CopyFaithful, CopyRight, Copying
<1> QED
  BY <1>1, <1>2, <1>3, <1>4 DEF CopyRight

(* ... and the copy of a slot.                                              *)
LEMMA CopyCopies ==
  ASSUME IndInv, ContentsInv, NEW p \in Threads, CopySlot(p)
  PROVE  CopyRight(p)'
<1>1. PICK t \in Tables, u \in Tables :
        t = ht /\ u = ht + 1 /\ u # t /\ rs[p].old = t /\ rs[p].new = u
  BY Resizer DEF CopySlot, Copying, Tables
<1>2. /\ pc[p] = "copy" /\ rs'[p].old = t /\ rs'[p].new = u
      /\ UNCHANGED <<num_buckets, ht>> /\ rs[p].bin \in Bins
  BY <1>1, CopyMoves, Resizer DEF CopySlot, Copying
<1>3. CopyRight(p)
  BY <1>2 DEF ContentsInv, CopyFaithful, CopyRight, Copying
<1>4. \A b \in Bins : \A i \in 1..Len(key[t][b]) :
        Copied(p, b, i)' <=> Copied(p, b, i) \/ (b = rs[p].bin /\ i = ix[p])
  BY <1>1, CopyMoves
<1> DEFINE kk == key[t][rs[p].bin][ix[p]]
<1>5. \A k \in Keys : Slots(t, k)' = Slots(t, k)
  <2>1. CASE kk = None
    <3>1. ~Writes(p) /\ ~ResizeStart(p)
      BY <1>1, <1>2, <2>1
      DEF Writes, Work, Resize, ResizeStart, PutKey, PutLink, RemoveKey, PutVal
    <3>2. \A k \in Keys : SlotsStay(t, k)
      BY <1>1, <1>2, <3>1, StepSlots DEF Work, Resize
    <3> QED
      BY <3>2 DEF SlotsStay, Slots, clht_hash
  <2>2. CASE kk # None
    BY <1>1, <2>2, StepSlots DEF SlotsStay, Slots, clht_hash, Work, Resize
  <2> QED
    BY <2>1, <2>2
<1>6. ASSUME NEW k \in Keys
      PROVE  CopiedKey(p, k)' <=> CopiedKey(p, k) \/ (k = kk /\ clht_hash(t, k) = rs[p].bin
                                                     /\ ix[p] \in Slots(t, k))
  <2>1. PICK b \in Bins : b = clht_hash(t, k)
    BY HashInRange, KeysAssumption DEF IndInv, TypeOK
  <2>2. /\ CopiedKey(p, k) <=> \E i \in Slots(t, k) : Copied(p, b, i)
        /\ CopiedKey(p, k)' <=> \E i \in Slots(t, k) : Copied(p, b, i)'
    BY <1>1, <1>2, <1>5, <2>1 DEF CopiedKey, Slots, clht_hash, Copied
  <2>3. ASSUME NEW i \in Slots(t, k)
        PROVE  Copied(p, b, i)' <=> Copied(p, b, i) \/ (b = rs[p].bin /\ i = ix[p])
    BY <1>4, <2>1, <2>3 DEF Slots, SlotsWith
  <2>4. b = rs[p].bin /\ ix[p] \in Slots(t, k) => k = kk
    BY <2>1 DEF Slots, SlotsWith
  <2> QED
    BY <2>1, <2>2, <2>3, <2>4
<1>7. ASSUME NEW k \in Keys
      PROVE  Lookup(u, k)' = IF CopiedKey(p, k)' THEN Lookup(t, k)' ELSE None
  <2>1. Lookup(u, k) = IF CopiedKey(p, k) THEN Lookup(t, k) ELSE None
    BY <1>1, <1>3 DEF CopyRight
  <2>2. CASE kk = None
    <3>1. Kept
      BY <1>1, <1>2, <2>2, StepLookup
      DEF Writes, Work, Resize, PutKey, PutLink, RemoveKey, PutVal
    <3>2. k # kk
      BY <2>2, KeysAssumption
    <3> QED
      BY <1>6, <2>1, <3>1, <3>2 DEF Kept
  <2>3. CASE kk # None
    <3>1. \A w \in Tables, x \in Keys :
            Lookup(w, x)' = IF w = u /\ x = kk THEN Lookup(t, kk) ELSE Lookup(w, x)
      BY <1>1, <2>3, CopyLookup DEF Changed
    <3>2. /\ kk \in Keys /\ clht_hash(t, kk) = rs[p].bin /\ ix[p] \in Slots(t, kk)
      BY <1>1, <2>3, CopyEffect DEF Slots
    <3> HIDE DEF kk
    <3> QED
      BY <1>1, <1>6, <2>1, <3>1, <3>2
  <2> QED
    BY <2>2, <2>3
<1>8. pc'[p] = "swap" => rs'[p].bin + 1 = num_buckets'[rs'[p].old]
  BY <1>1, <1>2, CopyMoves
<1> QED
  BY <1>2, <1>7, <1>8 DEF CopyRight

(* ... and so does every step.                                              *)
LEMMA CopyStep ==
  ASSUME IndInv, ContentsInv, NEW p \in Threads, Invoke(p) \/ Work(p)
  PROVE  CopyFaithful'
<1>1. ASSUME NEW q \in Threads, pc'[q] \in Copying PROVE CopyRight(q)'
  BY <1>1, CopyOther, CopyStarts, CopyMarks, CopyCopies, CopyingSteps DEF ContentsInv
<1> QED
  BY <1>1 DEF CopyFaithful, CopyRight

(* A resize that has copied the last bucket has copied every entry.         *)
LEMMA AllCopied == IndInv /\ ContentsInv => ResizeKeepsContents
<1> SUFFICES ASSUME IndInv, ContentsInv, NEW p \in Threads, pc[p] = "swap", NEW k \in Keys
             PROVE  Lookup(rs[p].new, k) = Lookup(rs[p].old, k)
  BY DEF ResizeKeepsContents
<1> DEFINE t == rs[p].old
           b == clht_hash(t, k)
<1>1. /\ rs[p].bin + 1 = num_buckets[t]
      /\ Lookup(rs[p].new, k) = IF CopiedKey(p, k) THEN Lookup(t, k) ELSE None
  BY DEF ContentsInv, CopyFaithful, Copying
<1>2. t \in Tables /\ rs[p].bin \in Bins /\ num_buckets[t] \in Nat
  BY Resizer DEF Copying, IndInv, TypeOK, TablesOK
<1>3. b \in 0..(num_buckets[t] - 1)
  BY <1>2, HashInRange, KeysAssumption DEF IndInv, TypeOK
<1>4. b < rs[p].bin \/ b = rs[p].bin
  BY <1>1, <1>2, <1>3 DEF Bins
<1>5. CASE SlotsWith(key[t][b], k) = {}
  BY <1>1, <1>5 DEF Lookup
<1>6. CASE SlotsWith(key[t][b], k) # {}
  BY <1>1, <1>4, <1>6 DEF CopiedKey, Copied
<1> QED
  BY <1>5, <1>6
-----------------------------------------------------------------------------
(* What a call is and has at each place of the code.                        *)
Phase(p) ==
  /\ call[p] = Idle <=> pc[p] = "idle"
  /\ call[p].op = "put" => call[p].val # None
  /\ pc[p] \in {"get", "getkey", "getcheck", "getnext"} => call[p].op = "get"
  /\ pc[p] \in {"exists", "existsnext", "acq", "wait", "reread", "locked", "release"} =>
       call[p].op \in {"put", "remove"}
  /\ pc[p] \in {"putkey", "putlink", "status"} \cup Sizing \/ resize[p] =>
       call[p].op = "put"
  /\ pc[p] \in {"idle", "get", "getnext", "exists", "existsnext", "acq", "wait", "reread", "locked",
                "putkey", "putlink"} => ret[p] = None
  /\ pc[p] \in {"status"} \cup Sizing \/ (pc[p] = "release" /\ resize[p]) => ret[p] # None

(* A step of one thread leaves the values that the others have read alone.  *)
LEMMA OthersKeepRet ==
  ASSUME TypeOK, NEW p \in Threads, Invoke(p) \/ Work(p), NEW q \in Threads, q # p
  PROVE  ret'[q] = ret[q]
<1> USE DEF TypeOK, ThreadsOK
<1>1. CASE Invoke(p) \/ Return(p) \/ Get(p) \/ Exists(p)
  BY <1>1 DEF Invoke, Return, Get, GetVal, GetKey, GetCheck, GetNext, Exists, ExistsKey,
              ExistsNext
<1>2. CASE Lock(p) \/ Release(p) \/ Put(p) \/ Remove(p)
  BY <1>2 DEF Lock, LockAcquire, LockResized, AwaitNewTable, Reread, Release, Put, PutFound,
              PutVal, PutKey, PutExpand, PutLink, Remove, RemoveKey, RemoveMiss
<1>3. CASE Status(p) \/ Resize(p)
  BY <1>3 DEF Status, StatusLock, Count, StatusUnlock, Resize, ResizeOld, ResizeBusy,
              ResizeStart, MarkBucket, MarkedBefore, CopySlot, Swap, Publish, ResizeUnlock
<1> QED
  BY <1>1, <1>2, <1>3 DEF Work

(* A step keeps the place of its own thread, ...                            *)
LEMMA PhaseOwn ==
  ASSUME IndInv, ContentsInv, NEW p \in Threads, Invoke(p) \/ Work(p)
  PROVE  Phase(p)'
<1> USE DEF Goto, Sizing, Resizing, Copying, Phase
<1>1. /\ pc \in [Threads -> Labels] /\ call \in [Threads -> Calls \cup {Idle}]
      /\ ret \in [Threads -> Vals \cup {None}] /\ resize \in [Threads -> BOOLEAN]
      /\ Phase(p)
      /\ pc[p] \in {"idle", "done", "locked"} => ~resize[p]
  BY DEF IndInv, TypeOK, ThreadsOK, OneTrigger, ContentsInv, Phases
<1>2. CASE Invoke(p)
  <2>1. PICK c \in Calls :
          /\ call' = [call EXCEPT ![p] = c]
          /\ IF c.op = "put" THEN puts < MaxPuts /\ c.val = puts + 1 ELSE c.val = None
          /\ pc' = [pc EXCEPT ![p] = IF c.op = "get" THEN "get" ELSE "exists"]
    BY <1>2 DEF Invoke
  <2>2. c # Idle /\ c.op \in {"put", "get", "remove"} /\ (c.op = "put" => c.val # None)
    BY <2>1 DEF Calls, Idle, IndInv, TypeOK
  <2>3. ret'[p] = None /\ ~resize'[p]
    BY <1>1, <1>2 DEF Invoke, resizing
  <2> QED
    BY <1>1, <2>1, <2>2, <2>3
<1>3. CASE Return(p)
  BY <1>1, <1>3 DEF Return, Idle, resizing
<1>4. CASE Get(p)
  BY <1>1, <1>4 DEF Get, GetVal, GetKey, GetCheck, GetNext, Advance, Follow, resizing
<1>5. CASE Exists(p)
  BY <1>1, <1>5 DEF Exists, ExistsKey, ExistsNext, Advance, Follow, resizing
<1>6. CASE Lock(p) \/ Release(p)
  BY <1>1, <1>6 DEF Lock, LockAcquire, LockResized, AwaitNewTable, Reread, Release, resizing
<1>7. CASE Put(p)
  BY <1>1, <1>7 DEF Put, PutFound, PutVal, PutKey, PutExpand, PutLink, resizing
<1>8. CASE Remove(p)
  <2>1. CASE RemoveKey(p)
    <3>1. ret'[p] # None
      BY <1>1, <2>1, RemoveEffect
    <3> QED
      BY <1>1, <2>1, <3>1 DEF RemoveKey, resizing
  <2>2. CASE RemoveMiss(p)
    BY <1>1, <2>2 DEF RemoveMiss, resizing
  <2> QED
    BY <1>8, <2>1, <2>2 DEF Remove
<1>9. CASE Status(p)
  BY <1>1, <1>9 DEF Status, StatusLock, Count, StatusUnlock
<1>10. CASE Resize(p)
  BY <1>1, <1>10 DEF Resize, ResizeOld, ResizeBusy, ResizeStart, MarkBucket, MarkedBefore,
                     CopySlot, NextBucket, Swap, Publish, ResizeUnlock, resizing
<1> QED
  BY <1>2, <1>3, <1>4, <1>5, <1>6, <1>7, <1>8, <1>9, <1>10 DEF Work

(* ... and those of all threads.                                            *)
LEMMA PhasesStep ==
  ASSUME IndInv, ContentsInv, NEW p \in Threads, Invoke(p) \/ Work(p)
  PROVE  Phases'
<1>1. ASSUME NEW q \in Threads PROVE Phase(q)'
  <2>1. CASE q = p
    BY <2>1, PhaseOwn
  <2>2. CASE q # p
    <3>1. Stands(q) /\ ret'[q] = ret[q]
      BY <2>2, OthersStand, OthersKeepRet DEF IndInv
    <3>2. Phase(q)
      BY DEF ContentsInv, Phases, Phase
    <3> QED
      BY <3>1, <3>2 DEF Phase, Stands
  <2> QED
    BY <2>1, <2>2
<1> QED
  BY <1>1 DEF Phases, Phase
-----------------------------------------------------------------------------
(* A bucket lock keeps the chain as it is for the thread that holds it.     *)
LEMMA LockedChainStays ==
  ASSUME IndInv, ContentsInv, NEW p \in Threads, Invoke(p) \/ Work(p),
         NEW q \in Threads, q # p, pc[q] \in Updating
  PROVE  /\ key'[tab[q]][Bin(q)] = key[tab[q]][Bin(q)]
         /\ val'[tab[q]][Bin(q)] = val[tab[q]][Bin(q)]
<1>1. tab[q] = ht /\ tab[q] \in Tables /\ Bin(q) \in Bins /\ ht \in Nat
  BY OnCurrent, Thread DEF IndInv, UpdatesHitCurrentTable, Tables
<1>2. ASSUME pc[p] \in Updating
      PROVE  tab[p] = ht /\ Bin(p) # Bin(q) /\ tab[p] \in Tables /\ Bin(p) \in Bins
  BY <1>1, <1>2, OnCurrent, Thread DEF IndInv, UpdatesHitCurrentTable, UpdateExclusion
<1>3. CASE PutKey(p) \/ PutLink(p) \/ RemoveKey(p)
  <2>1. pc[p] \in Updating /\ Elsewhere(tab[p], Bin(p))
    BY <1>3, PutKeyEffect, PutLinkEffect, RemoveEffect
    DEF Stores, Deletes, Bin, PutKey, PutLink, RemoveKey, Updating
  <2> QED
    BY <1>1, <1>2, <2>1 DEF Elsewhere
<1>4. CASE PutVal(p)
  <2>1. pc[p] \in Updating /\ key' = key
    BY <1>4 DEF PutVal, Updating
  <2>2. PICK i : val' = [val EXCEPT ![tab[p]][Bin(p)][i] = call[p].val]
    BY <1>4 DEF PutVal
  <2>3. val'[tab[q]][Bin(q)] = val[tab[q]][Bin(q)]
    BY <1>1, <1>2, <2>1, <2>2 DEF IndInv, TypeOK, TablesOK
  <2> QED
    BY <2>1, <2>3
<1>5. CASE CopySlot(p) /\ key[rs[p].old][rs[p].bin][ix[p]] # None
  <2>1. rs[p].new = ht + 1
    BY <1>5, Resizer DEF CopySlot, Copying
  <2>2. \E b : Elsewhere(rs[p].new, b)
    BY <1>5, CopyEffect DEF Stores
  <2> QED
    BY <1>1, <2>1, <2>2 DEF Elsewhere
<1>6. CASE ~Writes(p)
  BY <1>6, NoEffect
<1> QED
  BY <1>3, <1>4, <1>5, <1>6 DEF Writes

(* Every step keeps the puts ready that have found their slot.              *)
LEMMA ReadyStep ==
  ASSUME IndInv, ContentsInv, NEW p \in Threads, Invoke(p) \/ Work(p)
  PROVE  PutsReady'
<1> DEFINE Ready(q) ==
      /\ pc[q] \in {"putkey", "putlink"} => SlotsWith(Chain(q), call[q].key) = {}
      /\ pc[q] = "putkey" => KeyAt(q) = None /\ ValAt(q) = call[q].val
<1>1. PutsReady /\ pc \in [Threads -> Labels] /\ ix \in [Threads -> Nat \ {0}] /\ TablesOK
  BY DEF IndInv, TypeOK, ThreadsOK, ContentsInv
<1>2. ASSUME NEW q \in Threads, q # p PROVE Ready(q)'
  <2>1. Stands(q)
    BY <1>2, OthersStand DEF IndInv
  <2>2. Bin(q)' = Bin(q)
    BY <2>1, BinStays DEF Stands
  <2>3. CASE pc[q] \in Updating
    <3>1. /\ key'[tab[q]][Bin(q)] = key[tab[q]][Bin(q)]
          /\ val'[tab[q]][Bin(q)] = val[tab[q]][Bin(q)]
      BY <1>2, <2>3, LockedChainStays
    <3> QED
      BY <1>1, <2>1, <2>2, <3>1 DEF PutsReady, Stands, Chain, KeyAt, ValAt
  <2>4. CASE pc[q] \notin Updating
    BY <2>1, <2>4 DEF Stands, Updating
  <2> QED
    BY <2>3, <2>4
<1>3. CASE PutVal(p)
  <2>1. PICK i \in SlotsWith(Chain(p), None) :
          ix' = [ix EXCEPT ![p] = i] /\ val' = [val EXCEPT ![tab[p]][Bin(p)][i] = call[p].val]
    BY <1>3 DEF PutVal
  <2>2. /\ UNCHANGED <<key, call, tab, num_buckets>> /\ pc'[p] = "putkey" /\ ix'[p] = i
        /\ SlotsWith(Chain(p), call[p].key) = {}
    BY <1>1, <1>3, <2>1 DEF PutVal, Goto
  <2>3. Bin(p)' = Bin(p) /\ Chain(p)' = Chain(p)
    BY <2>2 DEF Bin, clht_hash, Chain
  <2>4. KeyAt(p)' = None
    BY <2>1, <2>2, <2>3 DEF KeyAt, SlotsWith, Chain
  <2>5. ValAt(p)' = call[p].val
    <3>1. tab[p] \in Tables /\ Bin(p) \in Bins /\ val \in [Tables -> [Bins -> Seq(Vals \cup {None})]]
      BY Thread DEF IndInv, TypeOK, TablesOK
    <3>2. i \in 1..Len(val[tab[p]][Bin(p)]) /\ val[tab[p]][Bin(p)] \in Seq(Vals \cup {None})
      BY <1>1, <3>1 DEF TablesOK, SlotsWith, Chain
    <3>3. val'[tab[p]][Bin(p)] = [val[tab[p]][Bin(p)] EXCEPT ![i] = call[p].val]
      BY <2>1, <3>1
    <3>4. val'[tab[p]][Bin(p)][i] = call[p].val
      BY <3>2, <3>3
    <3> QED
      BY <2>2, <2>3, <3>4 DEF ValAt
  <2> QED
    BY <1>2, <2>2, <2>3, <2>4, <2>5 DEF PutsReady
<1>4. CASE PutExpand(p)
  <2>1. /\ UNCHANGED <<key, call, tab, num_buckets>> /\ pc'[p] = "putlink"
        /\ SlotsWith(Chain(p), call[p].key) = {}
    BY <1>1, <1>4 DEF PutExpand, Goto
  <2>2. Bin(p)' = Bin(p) /\ Chain(p)' = Chain(p)
    BY <2>1 DEF Bin, clht_hash, Chain
  <2> QED
    BY <1>2, <2>1, <2>2 DEF PutsReady
<1>5. CASE ~PutVal(p) /\ ~PutExpand(p)
  <2>1. pc'[p] \notin {"putkey", "putlink"}
    <3> USE DEF Goto
    <3>1. CASE Invoke(p) \/ Return(p) \/ Get(p) \/ Exists(p)
      BY <1>1, <3>1 DEF Invoke, Return, Get, GetVal, GetKey, GetCheck, GetNext, Exists,
                        ExistsKey, ExistsNext, Advance, Follow
    <3>2. CASE Lock(p) \/ Release(p) \/ Put(p) \/ Remove(p)
      BY <1>1, <1>5, <3>2 DEF Lock, LockAcquire, LockResized, AwaitNewTable, Reread, Release,
                        Put, PutFound, PutKey, PutLink, Remove, RemoveKey, RemoveMiss
    <3>3. CASE Status(p) \/ Resize(p)
      BY <1>1, <3>3 DEF Status, StatusLock, Count, StatusUnlock, Resize, ResizeOld, ResizeBusy,
                        ResizeStart, MarkBucket, MarkedBefore, CopySlot, NextBucket, Swap,
                        Publish, ResizeUnlock
    <3> QED
      BY <3>1, <3>2, <3>3 DEF Work
  <2> QED
    BY <1>2, <2>1 DEF PutsReady
<1> QED
  BY <1>3, <1>4, <1>5

(* Every step keeps what the tables hold right.                             *)
LEMMA ContentsStep ==
  ASSUME IndInv, ContentsInv, NEW p \in Threads, Invoke(p) \/ Work(p)
  PROVE  ContentsInv'
<1>1. UniqueKeys'
  <2>1. CASE PutKey(p) \/ PutLink(p) \/ RemoveKey(p)
    BY <2>1, UpdateLookup
  <2>2. CASE CopySlot(p) /\ key[rs[p].old][rs[p].bin][ix[p]] # None
    BY <2>2, CopyLookup
  <2>3. CASE ~Writes(p) \/ PutVal(p)
    BY <2>3, StepLookup
  <2> QED
    BY <2>1, <2>2, <2>3 DEF Writes
<1> QED
  BY <1>1, KeysStep, FreshStep, MarkersStep, CopyStep, PhasesStep, ReadyStep DEF ContentsInv
-----------------------------------------------------------------------------
(* What a step changes in the map, and what the open calls see of it.       *)
LEMMA AbsStep ==
  ASSUME IndInv, ContentsInv, NEW p \in Threads, Invoke(p) \/ Work(p)
  PROVE  /\ PutKey(p) \/ PutLink(p) =>
              /\ AbsMap[call[p].key] = None
              /\ AbsMap' = [AbsMap EXCEPT ![call[p].key] = call[p].val]
         /\ RemoveKey(p) =>
              /\ AbsMap[call[p].key] # None
              /\ AbsMap' = [AbsMap EXCEPT ![call[p].key] = None]
              /\ ret' = [ret EXCEPT ![p] = AbsMap[call[p].key]]
         /\ ~PutKey(p) /\ ~PutLink(p) /\ ~RemoveKey(p) => AbsMap' = AbsMap
<1>1. PICK t \in Tables : t = ht
  BY DEF IndInv, TypeOK, TablesOK
<1>2. AbsMap = [k \in Keys |-> Lookup(t, k)]
  BY <1>1 DEF AbsMap
<1>3. ht' = ht => AbsMap' = [k \in Keys |-> Lookup(t, k)']
  BY <1>1 DEF AbsMap
<1>4. ASSUME PutKey(p) \/ PutLink(p)
      PROVE  /\ AbsMap[call[p].key] = None
             /\ AbsMap' = [AbsMap EXCEPT ![call[p].key] = call[p].val]
  <2>1. call[p].key \in Keys /\ ht' = ht
    BY <1>4, Caller DEF PutKey, PutLink, IndInv, ContentsInv
  <2>2. /\ Lookup(t, call[p].key) = None
        /\ \A x \in Keys : Lookup(t, x)' = IF x = call[p].key THEN call[p].val ELSE Lookup(t, x)
    BY <1>1, <1>4, UpdateLookup DEF Changed
  <2> QED
    BY <1>2, <1>3, <2>1, <2>2
<1>5. ASSUME RemoveKey(p)
      PROVE  /\ AbsMap[call[p].key] # None
             /\ AbsMap' = [AbsMap EXCEPT ![call[p].key] = None]
             /\ ret' = [ret EXCEPT ![p] = AbsMap[call[p].key]]
  <2>1. call[p].key \in Keys /\ ht' = ht
    BY <1>5, Caller DEF RemoveKey, IndInv, ContentsInv
  <2>2. \A x \in Keys : Lookup(t, x)' = IF x = call[p].key THEN None ELSE Lookup(t, x)
    BY <1>1, <1>5, UpdateLookup DEF Changed
  <2>3. /\ Lookup(t, call[p].key) # None
        /\ ret' = [ret EXCEPT ![p] = Lookup(t, call[p].key)]
    BY <1>1, <1>5, RemoveEffect, UpdateLookup
  <2> QED
    BY <1>2, <1>3, <2>1, <2>2, <2>3
<1>6. ASSUME ~PutKey(p), ~PutLink(p), ~RemoveKey(p)
      PROVE  AbsMap' = AbsMap
  <2>1. \A x \in Keys : Lookup(t, x)' = Lookup(t, x)
    <3>1. CASE CopySlot(p) /\ key[rs[p].old][rs[p].bin][ix[p]] # None
      <4>1. t # ht + 1
        BY <1>1 DEF Tables
      <4> QED
        BY <3>1, <4>1, CopyLookup DEF Changed
    <3>2. CASE ~Writes(p) \/ PutVal(p)
      BY <3>2, StepLookup DEF Kept
    <3> QED
      BY <1>6, <3>1, <3>2 DEF Writes
  <2>2. CASE ht' = ht
    BY <1>2, <1>3, <2>1, <2>2
  <2>3. CASE Swap(p)
    <3>1. PICK u \in Tables : u = rs[p].new /\ rs[p].old = t /\ ht' = u
      BY <1>1, <2>3, Resizer DEF Swap, Copying
    <3>2. \A x \in Keys : Lookup(u, x) = Lookup(t, x)
      BY <2>3, <3>1, AllCopied DEF ResizeKeepsContents, Swap
    <3>3. ~Writes(p)
      BY <2>3 DEF Swap, Writes, PutVal, PutKey, PutLink, RemoveKey, CopySlot
    <3>4. \A x \in Keys : Lookup(u, x)' = Lookup(u, x)
      BY <3>3, StepLookup DEF Kept
    <3>5. AbsMap' = [x \in Keys |-> Lookup(u, x)']
      BY <3>1 DEF AbsMap
    <3> QED
      BY <1>2, <3>2, <3>4, <3>5
  <2> QED
    BY <2>2, <2>3, SizesStay
<1> QED
  BY <1>4, <1>5, <1>6

(* An open call adds the new value of its key to what it has seen.          *)
LEMMA Watches ==
  ASSUME Watch, NEW q \in Threads
  PROVE  /\ call'[q] = call[q] /\ call[q] # Idle =>
              seen'[q] = seen[q] \cup {AbsMap'[call[q].key]}
         /\ call[q] = Idle /\ call'[q] # Idle => seen'[q] = {AbsMap'[call'[q].key]}
  BY DEF Watch

(* The value of every slot was there before, is none, or is that of the put *)
(* that moves.                                                              *)
LEMMA WrittenValues ==
  ASSUME IndInv, ContentsInv, NEW p \in Threads, Invoke(p) \/ Work(p),
         NEW t \in Tables, NEW b \in Bins, NEW i \in 1..Len(val'[t][b])
  PROVE  \/ val'[t][b][i] = None
         \/ \E u \in Tables, c \in Bins : \E j \in 1..Len(val[u][c]) : val'[t][b][i] = val[u][c][j]
         \/ (PutVal(p) \/ PutLink(p)) /\ val'[t][b][i] = call[p].val
<1>1. TablesOK /\ ChainsOK /\ ChainsOK' /\ UniqueKeys
  BY ChainsFromTables, ChainsStep DEF IndInv, TypeOK, ContentsInv
<1>2. CASE UNCHANGED val
  BY <1>2
<1>3. CASE PutVal(p)
  <2>1. PICK j : val' = [val EXCEPT ![tab[p]][Bin(p)][j] = call[p].val]
    BY <1>3 DEF PutVal
  <2>2. val \in [Tables -> [Bins -> Seq(Vals \cup {None})]]
    BY <1>1 DEF TablesOK
  <2>3. \/ val'[t][b] = val[t][b]
        \/ t = tab[p] /\ b = Bin(p) /\ val'[t][b] = [val[t][b] EXCEPT ![j] = call[p].val]
    BY <2>1, <2>2
  <2>4. val[t][b] \in Seq(Vals \cup {None})
    BY <2>2
  <2> QED
    BY <1>3, <2>3, <2>4
<1>4. ASSUME NEW u \in Tables, NEW k \in Keys, NEW v, Stores(u, k, v),
             \/ PutLink(p) /\ v = call[p].val
             \/ \E w \in Tables, c \in Bins : \E j \in 1..Len(val[w][c]) : v = val[w][c][j]
      PROVE  \/ val'[t][b][i] = None
             \/ \E w \in Tables, c \in Bins : \E j \in 1..Len(val[w][c]) :
                  val'[t][b][i] = val[w][c][j]
             \/ (PutVal(p) \/ PutLink(p)) /\ val'[t][b][i] = call[p].val
  <2> DEFINE d == clht_hash(u, k)
  <2>1. PICK n : Placed(key[u][d], val[u][d], key'[u][d], val'[u][d], n, k, v)
    BY <1>4 DEF Stores
  <2>2. CASE t # u \/ b # d
    <3>1. val'[t][b] = val[t][b]
      BY <1>4, <2>2 DEF Stores, Elsewhere
    <3> QED
      BY <3>1
  <2>3. CASE t = u /\ b = d
    <3>1. i \in 1..Len(key'[t][b]) /\ Len(val[t][b]) = Len(key[t][b])
      BY <1>1 DEF ChainsOK
    <3>2. CASE i = n
      BY <1>4, <2>1, <2>3, <3>2 DEF Placed
    <3>3. CASE i # n
      BY <2>1, <2>3, <3>1, <3>3 DEF Placed
    <3> QED
      BY <3>2, <3>3
  <2> QED
    BY <2>2, <2>3
<1>5. CASE PutLink(p)
  <2>1. Stores(tab[p], call[p].key, call[p].val)
    BY <1>5, PutLinkEffect
  <2>2. tab[p] \in Tables /\ call[p].key \in Keys
    BY <1>5, Thread, Caller DEF IndInv, ContentsInv, PutLink
  <2> QED
    BY <1>4, <1>5, <2>1, <2>2
<1>6. CASE CopySlot(p) /\ key[rs[p].old][rs[p].bin][ix[p]] # None
  <2> DEFINE k == key[rs[p].old][rs[p].bin][ix[p]]
             v == Lookup(rs[p].old, k)
  <2>1. /\ rs[p].old \in Tables /\ rs[p].new \in Tables /\ rs[p].bin \in Bins
    BY <1>6, Resizer DEF CopySlot, Copying
  <2>2. /\ Stores(rs[p].new, k, v) /\ k \in Keys /\ clht_hash(rs[p].old, k) = rs[p].bin
        /\ ix[p] \in SlotsWith(key[rs[p].old][rs[p].bin], k)
    BY <1>6, CopyEffect
  <2>3. v = val[rs[p].old][rs[p].bin][ix[p]]
    BY <1>1, <2>1, <2>2, LookupSlot
  <2>4. ix[p] \in 1..Len(val[rs[p].old][rs[p].bin])
    BY <1>1, <2>1, <2>2, LenType DEF SlotsWith
  <2> HIDE DEF k, v
  <2> QED
    BY <1>4, <2>1, <2>2, <2>3, <2>4
<1>7. CASE ~Writes(p) \/ PutKey(p) \/ RemoveKey(p)
  BY <1>2, <1>7, NoEffect DEF PutKey, RemoveKey
<1> QED
  BY <1>3, <1>5, <1>6, <1>7 DEF Writes
-----------------------------------------------------------------------------
(* A call keeps its arguments until it returns.                             *)
LEMMA CallStays ==
  ASSUME NEW p \in Threads, Work(p)
  PROVE  /\ puts' = puts
         /\ Return(p) \/ call' = call
<1>1. CASE Return(p)
  BY <1>1 DEF Return
<1>2. CASE Get(p) \/ Exists(p) \/ Lock(p) \/ Release(p)
  BY <1>2 DEF Get, GetVal, GetKey, GetCheck, GetNext, Exists, ExistsKey, ExistsNext,
              Lock, LockAcquire, LockResized, AwaitNewTable, Reread, Release
<1>3. CASE Put(p) \/ Remove(p)
  BY <1>3 DEF Put, PutFound, PutVal, PutKey, PutExpand, PutLink, Remove, RemoveKey, RemoveMiss
<1>4. CASE Status(p) \/ Resize(p)
  BY <1>4 DEF Status, StatusLock, Count, StatusUnlock, Resize, ResizeOld, ResizeBusy,
              ResizeStart, MarkBucket, MarkedBefore, CopySlot, Swap, Publish, ResizeUnlock
<1> QED
  BY <1>1, <1>2, <1>3, <1>4 DEF Work

(* A put holds its value back until it stores it in the chain.              *)
LEMMA PendingSteps ==
  ASSUME IndInv, NEW p \in Threads, Work(p), Pending(p)'
  PROVE  Pending(p) /\ call'[p] = call[p] /\ ~PutVal(p) /\ ~PutLink(p)
<1> USE DEF Goto, Pending
<1>1. pc \in [Threads -> Labels] /\ call \in [Threads -> Calls \cup {Idle}]
  BY DEF IndInv, TypeOK, ThreadsOK
<1>2. ~PutVal(p) /\ ~PutLink(p) /\ ~PutKey(p) /\ ~RemoveKey(p)
  BY <1>1 DEF PutVal, PutLink, PutKey, RemoveKey
<1>3. ~Return(p) /\ call' = call
  BY <1>1, CallStays DEF Return
<1>4. CASE Get(p) \/ Exists(p)
  BY <1>1, <1>2, <1>3, <1>4 DEF Get, GetVal, GetKey, GetCheck, GetNext, Exists,
                    ExistsKey, ExistsNext, Advance, Follow
<1>5. CASE Lock(p) \/ Release(p)
  BY <1>1, <1>2, <1>3, <1>5 DEF Lock, LockAcquire, LockResized, AwaitNewTable, Reread, Release
<1>6. CASE PutFound(p) \/ PutExpand(p) \/ RemoveMiss(p)
  BY <1>1, <1>2, <1>3, <1>6 DEF PutFound, PutExpand, RemoveMiss
<1>7. CASE Status(p)
  BY <1>1, <1>2, <1>3, <1>7 DEF Status, StatusLock, Count, StatusUnlock
<1>8. CASE Resize(p)
  BY <1>1, <1>2, <1>3, <1>8 DEF Resize, ResizeOld, ResizeBusy,
                    ResizeStart, MarkBucket, MarkedBefore, CopySlot, NextBucket, Swap,
                    Publish, ResizeUnlock
<1> QED
  BY <1>2, <1>3, <1>4, <1>5, <1>6, <1>7, <1>8 DEF Work, Put, Remove

(* A get that has just read a value, or has just found its key.             *)
LEMMA ComparingSteps ==
  ASSUME IndInv, NEW p \in Threads, Invoke(p) \/ Work(p), Comparing(p)'
  PROVE  /\ call'[p] = call[p] /\ tab'[p] = tab[p] /\ ix'[p] = ix[p]
         /\ GetVal(p) \/ (GetKey(p) /\ ret'[p] = ret[p] /\ pc'[p] = "getcheck"
                          /\ KeyAt(p) = call[p].key)
<1> USE DEF Goto, Comparing
<1>1. /\ pc \in [Threads -> Labels] /\ ret \in [Threads -> Vals \cup {None}]
  BY DEF IndInv, TypeOK, ThreadsOK
<1>2. CASE Invoke(p) \/ Return(p) \/ Exists(p) \/ GetCheck(p) \/ GetNext(p)
  BY <1>1, <1>2 DEF Invoke, Return, GetCheck, GetNext, Exists, ExistsKey, ExistsNext,
                    Advance, Follow
<1>3. CASE GetVal(p)
  BY <1>1, <1>3 DEF GetVal
<1>4. CASE GetKey(p)
  BY <1>1, <1>4 DEF GetKey, Advance
<1>5. CASE Lock(p) \/ Release(p) \/ Put(p) \/ Remove(p)
  BY <1>1, <1>5 DEF Lock, LockAcquire, LockResized, AwaitNewTable, Reread, Release, Put,
                    PutFound, PutVal, PutKey, PutExpand, PutLink, Remove, RemoveKey, RemoveMiss
<1>6. CASE Status(p) \/ Resize(p)
  BY <1>1, <1>6 DEF Status, StatusLock, Count, StatusUnlock, Resize, ResizeOld, ResizeBusy,
                    ResizeStart, MarkBucket, MarkedBefore, CopySlot, NextBucket, Swap,
                    Publish, ResizeUnlock
<1> QED
  BY <1>2, <1>3, <1>4, <1>5, <1>6 DEF Work, Get

(* The slot that a scanning thread looks at is one of its chain.            *)
LEMMA ScanSlot ==
  ASSUME IndInv, NEW q \in Threads, pc[q] \in Scanning
  PROVE  /\ tab[q] \in Tables /\ Bin(q) \in Bins
         /\ ix[q] \in 1..Len(key[tab[q]][Bin(q)]) /\ ix[q] \in 1..Len(val[tab[q]][Bin(q)])
<1>1. /\ tab[q] \in Tables /\ Bin(q) \in Bins /\ ix[q] \in Nat \ {0} /\ ChainsOK
  BY Thread DEF IndInv
<1>2. ix[q] <= Len(key[tab[q]][Bin(q)])
  BY DEF IndInv, InRange, Chain
<1> QED
  BY <1>1, <1>2, LenType

(* The value of a put that has not stored it yet stays out of sight.        *)
LEMMA FreshValuesStep ==
  ASSUME IndInv, ContentsInv, AnswersInv, NEW p \in Threads, Invoke(p) \/ Work(p)
  PROVE  FreshValues'
<1>1. FreshValues /\ TypeOK /\ puts \in Nat
  BY DEF AnswersInv, IndInv, TypeOK
<1>2. puts' \in Nat /\ puts <= puts' /\ (~Invoke(p) => puts' = puts)
  <2>1. CASE Invoke(p)
    <3>1. PICK c \in Calls : puts' = IF c.op = "put" THEN puts + 1 ELSE puts
      BY <2>1 DEF Invoke
    <3> QED
      BY <1>1, <2>1, <3>1
  <2>2. CASE ~Invoke(p)
    BY <1>1, <2>2, CallStays
  <2> QED
    BY <2>1, <2>2
<1>3. ASSUME NEW q \in Threads, q # p
      PROVE  /\ call'[q] = call[q] /\ ret'[q] = ret[q]
             /\ Pending(q)' = Pending(q) /\ Comparing(q)' = Comparing(q)
  BY <1>1, <1>3, OthersStand, OthersKeepRet DEF Stands, Pending, Comparing
<1>4. ASSUME Invoke(p)
      PROVE  /\ ~Comparing(p)' /\ UNCHANGED <<key, val>>
             /\ IF call'[p].op = "put" THEN call'[p].val = puts + 1 /\ puts' = puts + 1
                ELSE call'[p].val = None /\ ~Pending(p)'
  BY <1>1, <1>4 DEF Invoke, Goto, shared, Pending, Comparing, TypeOK, ThreadsOK
<1>5. ASSUME Pending(p)', ~Invoke(p)
      PROVE  Pending(p) /\ call'[p] = call[p] /\ ~PutVal(p) /\ ~PutLink(p)
  BY <1>5, PendingSteps
<1>6. ASSUME ~Invoke(p), call'[p] # call[p] PROVE call'[p] = Idle
  BY <1>1, <1>6, CallStays DEF Return, TypeOK, ThreadsOK
<1>7. ASSUME Comparing(p)'
      PROVE  \/ Comparing(p) /\ ret'[p] = ret[p]
             \/ \E t \in Tables, b \in Bins : \E i \in 1..Len(val[t][b]) : ret'[p] = val[t][b][i]
  <2>1. CASE GetVal(p)
    <3>1. pc[p] \in Scanning /\ ret'[p] = val[tab[p]][Bin(p)][ix[p]]
      BY <1>1, <2>1 DEF GetVal, Scanning, ValAt, TypeOK, ThreadsOK
    <3> QED
      BY <3>1, ScanSlot
  <2>2. CASE GetKey(p) /\ ret'[p] = ret[p]
    BY <2>2 DEF GetKey, Comparing
  <2> QED
    BY <1>7, <2>1, <2>2, ComparingSteps
<1>8. PutVal(p) \/ PutLink(p) => call[p].op = "put" /\ ~Invoke(p)
  BY DEF PutVal, PutLink, Invoke, ContentsInv, Phases
<1>9. ASSUME NEW q \in Threads, call[q].op = "put" PROVE call[q].val # None
  BY <1>9 DEF ContentsInv, Phases
<1>10. \A q \in Threads : Pending(q) => call[q].op = "put"
  BY DEF Pending
<1>11. ASSUME NEW t \in Tables, NEW b \in Bins, NEW i \in 1..Len(val'[t][b])
       PROVE  /\ val'[t][b][i] <= puts'
              /\ \A q \in Threads : Pending(q)' => val'[t][b][i] # call'[q].val
  <2>1. CASE val'[t][b][i] = None
    <3>1. \A q \in Threads : Pending(q)' => call'[q].val # None
      <4>1. ContentsInv'
        BY ContentsStep
      <4> QED
        BY <4>1 DEF ContentsInv, Phases, Pending
    <3> QED
      BY <1>2, <2>1, <3>1
  <2>2. ASSUME NEW u \in Tables, NEW c \in Bins, NEW j \in 1..Len(val[u][c]),
               val'[t][b][i] = val[u][c][j]
        PROVE  /\ val'[t][b][i] <= puts'
               /\ \A q \in Threads : Pending(q)' => val'[t][b][i] # call'[q].val
    <3>1. val[u][c][j] <= puts /\ \A q \in Threads : Pending(q) => val[u][c][j] # call[q].val
      BY <1>1 DEF FreshValues
    <3>2. val[u][c][j] \in Nat
      <4>1. val[u][c] \in Seq(Vals \cup {None})
        BY <1>1 DEF TypeOK, TablesOK
      <4>2. val[u][c][j] \in Vals \cup {None}
        BY <4>1
      <4> QED
        BY <4>2 DEF Vals
    <3>3. val[u][c][j] <= puts' /\ val[u][c][j] # puts + 1
      BY <1>1, <1>2, <3>1, <3>2
    <3>4. ASSUME NEW q \in Threads, Pending(q)' PROVE val[u][c][j] # call'[q].val
      <4>1. CASE q # p
        BY <1>3, <3>1, <3>4, <4>1
      <4>2. CASE q = p /\ Invoke(p)
        BY <1>4, <3>3, <3>4, <4>2 DEF Pending
      <4>3. CASE q = p /\ ~Invoke(p)
        BY <1>5, <3>1, <3>4, <4>3
      <4> QED
        BY <4>1, <4>2, <4>3
    <3> QED
      BY <2>2, <3>3, <3>4
  <2>3. CASE (PutVal(p) \/ PutLink(p)) /\ val'[t][b][i] = call[p].val
    <3>1. call[p].val <= puts' /\ call[p].op = "put" /\ ~Invoke(p)
      BY <1>1, <1>2, <1>8, <2>3 DEF FreshValues
    <3>2. ASSUME NEW q \in Threads, Pending(q)' PROVE call[p].val # call'[q].val
      <4>1. q # p
        BY <1>5, <2>3, <3>1, <3>2
      <4> QED
        BY <1>1, <1>3, <3>1, <3>2, <4>1 DEF FreshValues
    <3> QED
      BY <2>3, <3>1, <3>2
  <2> QED
    BY <2>1, <2>2, <2>3, WrittenValues
<1>12. ASSUME NEW q \in Threads
       PROVE  call'[q].val <= puts' /\ (Comparing(q)' => ret'[q] <= puts')
  <2>1. call[q].val <= puts /\ (Comparing(q) => ret[q] <= puts)
    BY <1>1 DEF FreshValues
  <2>2. call[q].val \in Nat /\ ret[q] \in Nat
    BY <1>1, Thread DEF TypeOK, ThreadsOK, Vals
  <2>3. CASE q # p
    BY <1>1, <1>2, <1>3, <2>1, <2>2, <2>3
  <2>4. CASE q = p
    <3>1. call'[p].val <= puts'
      <4>1. CASE Invoke(p)
        BY <1>1, <1>2, <1>4, <4>1
      <4>2. CASE ~Invoke(p) /\ call'[p] = call[p]
        BY <1>1, <1>2, <2>1, <2>2, <2>4, <4>2
      <4>3. CASE ~Invoke(p) /\ call'[p] = Idle
        BY <1>2, <4>3 DEF Idle
      <4> QED
        BY <1>6, <4>1, <4>2, <4>3
    <3>2. Comparing(p)' => ret'[p] <= puts'
      <4>1. ASSUME NEW t \in Tables, NEW b \in Bins, NEW i \in 1..Len(val[t][b])
            PROVE  val[t][b][i] <= puts'
        <5>1. val[t][b] \in Seq(Vals \cup {None})
          BY <1>1 DEF TypeOK, TablesOK
        <5>2. val[t][b][i] \in Vals \cup {None} /\ val[t][b][i] <= puts
          BY <1>1, <5>1 DEF FreshValues
        <5> QED
          BY <1>1, <1>2, <5>2 DEF Vals
      <4> QED
        BY <1>1, <1>2, <1>7, <2>1, <2>2, <2>4, <4>1
    <3> QED
      BY <2>4, <3>1, <3>2
  <2> QED
    BY <2>3, <2>4
<1>13. ASSUME NEW q \in Threads, NEW r \in Threads, Pending(q)', Comparing(r)'
       PROVE  ret'[r] # call'[q].val
  <2>1. CASE Invoke(p)
    <3>1. r # p /\ Comparing(r) /\ ret'[r] = ret[r]
      BY <1>3, <1>4, <1>13, <2>1
    <3>2. CASE q = p
      <4>1. call'[q].val = puts + 1 /\ ret[r] <= puts /\ ret[r] \in Nat
        BY <1>1, <1>4, <1>13, <2>1, <3>1, <3>2 DEF Pending, FreshValues, TypeOK, ThreadsOK, Vals
      <4> QED
        BY <1>1, <3>1, <4>1
    <3>3. CASE q # p
      BY <1>1, <1>3, <1>13, <3>1, <3>3 DEF FreshValues
    <3> QED
      BY <3>2, <3>3
  <2>2. CASE ~Invoke(p)
    <3>1. Pending(q) /\ call'[q] = call[q]
      BY <1>3, <1>5, <1>13, <2>2
    <3>2. \/ Comparing(r) /\ ret'[r] = ret[r]
          \/ \E t \in Tables, b \in Bins : \E i \in 1..Len(val[t][b]) : ret'[r] = val[t][b][i]
      BY <1>3, <1>7, <1>13
    <3> QED
      BY <1>1, <3>1, <3>2 DEF FreshValues
  <2> QED
    BY <2>1, <2>2
<1>14. ASSUME NEW q \in Threads, NEW r \in Threads, Pending(q)', call'[r].op = "put", q # r
       PROVE  call'[r].val # call'[q].val
  <2>1. CASE Invoke(p)
    <3>1. \A s \in Threads : call[s].val <= puts /\ call[s].val \in Nat
      BY <1>1, Thread DEF FreshValues, Vals
    <3>2. CASE q = p
      BY <1>1, <1>3, <1>4, <1>14, <2>1, <3>1, <3>2 DEF Pending
    <3>3. CASE r = p
      BY <1>1, <1>3, <1>4, <1>14, <2>1, <3>1, <3>3
    <3>4. CASE q # p /\ r # p
      BY <1>1, <1>3, <1>14, <3>4 DEF FreshValues
    <3> QED
      BY <3>2, <3>3, <3>4
  <2>2. CASE ~Invoke(p)
    <3>1. Pending(q) /\ call'[q] = call[q]
      BY <1>3, <1>5, <1>14, <2>2
    <3>2. call'[r] = call[r]
      BY <1>3, <1>6, <1>14, <2>2 DEF Idle
    <3> QED
      BY <1>1, <1>14, <3>1, <3>2 DEF FreshValues
  <2> QED
    BY <2>1, <2>2
<1> QED
  BY <1>11, <1>12, <1>13, <1>14 DEF FreshValues
-----------------------------------------------------------------------------
(* What the open calls have seen of their key.                              *)
Opened(q) == call[q] # Idle /\ call'[q] # Idle

(* An open call stays so, keeps its key and adds to what it has seen.       *)
LEMMA StaysOpen ==
  ASSUME IndInv, ContentsInv, NEW p \in Threads, Invoke(p) \/ Work(p), Watch,
         NEW q \in Threads, Opened(q)
  PROVE  /\ call'[q] = call[q] /\ call[q].key \in Keys /\ (q = p => ~Invoke(p))
         /\ seen[q] \subseteq seen'[q] /\ AbsMap'[call[q].key] \in seen'[q]
<1>1. q = p => ~Invoke(p)
  BY DEF Opened, Invoke, ContentsInv, Phases
<1>2. call'[q] = call[q]
  <2>1. CASE q # p
    BY <2>1, OthersStand DEF Stands, IndInv
  <2>2. CASE q = p
    BY <1>1, <2>2, CallStays DEF Return, Opened, IndInv, TypeOK, ThreadsOK
  <2> QED
    BY <2>1, <2>2
<1>3. call[q].key \in Keys
  BY Caller DEF Opened, IndInv, ContentsInv, Phases
<1> QED
  BY <1>1, <1>2, <1>3, Watches DEF Opened

(* A call that opens has seen what its key has in the current table.        *)
LEMMA Opens ==
  ASSUME IndInv, ContentsInv, NEW p \in Threads, Invoke(p) \/ Work(p), Watch,
         NEW q \in Threads, call[q] = Idle, call'[q] # Idle
  PROVE  /\ q = p /\ Invoke(p) /\ tab'[q] = ht /\ ix'[q] = 1 /\ call'[q].key \in Keys
         /\ seen'[q] = {AbsMap'[call'[q].key]}
<1>1. q = p
  BY OthersStand DEF Stands, IndInv
<1>2. Invoke(p)
  BY <1>1, CallStays DEF Return, IndInv, TypeOK, ThreadsOK
<1>3. PICK c \in Calls : call' = [call EXCEPT ![p] = c]
  BY <1>2 DEF Invoke
<1>4. call'[p].key \in Keys
  BY <1>3 DEF Calls, IndInv, TypeOK, ThreadsOK
<1> QED
  BY <1>1, <1>2, <1>4, Watches DEF Invoke, IndInv, TypeOK, ThreadsOK

(* A call sees its slots stay where they are and what they are, in the      *)
(* table it looks at, unless it sees its key go or come.                    *)
LEMMA OpenView ==
  ASSUME IndInv, ContentsInv, AnswersInv, NEW p \in Threads, Invoke(p) \/ Work(p), Watch,
         NEW q \in Threads, Opened(q)
  PROVE  None \in seen'[q] \/ SlotsStay(tab[q], call[q].key)
<1> DEFINE t == tab[q]
           k == call[q].key
<1>1. /\ t \in Tables /\ t <= ht /\ t # ht + 1 /\ k \in Keys
      /\ seen[q] \subseteq seen'[q] /\ AbsMap'[k] \in seen'[q]
  <2>1. t \in Tables /\ t <= ht /\ ht \in Tables
    BY Thread DEF IndInv, OldTablesMarked, TypeOK, TablesOK
  <2> QED
    BY <2>1, StaysOpen DEF Tables
<1>2. AbsMap[k] \in seen[q]
  BY DEF AnswersInv, SeenNow, Opened
<1>3. CASE PutKey(p) \/ PutLink(p) \/ RemoveKey(p)
  <2>1. CASE t = ht /\ k = call[p].key
    <3>1. CASE RemoveKey(p)
      <4>1. AbsMap'[k] = None
        BY <1>1, <2>1, <3>1, AbsStep, AbsMapType DEF IndInv, TypeOK
      <4> QED
        BY <1>1, <4>1
    <3>2. CASE PutKey(p) \/ PutLink(p)
      BY <1>1, <1>2, <2>1, <3>2, AbsStep
    <3> QED
      BY <1>3, <3>1, <3>2
  <2>2. CASE t # ht \/ k # call[p].key
    BY <1>1, <1>3, <2>2, StepSlots
  <2> QED
    BY <2>1, <2>2
<1>4. CASE CopySlot(p) /\ key[rs[p].old][rs[p].bin][ix[p]] # None
  BY <1>1, <1>4, StepSlots
<1>5. CASE ~Writes(p) \/ PutVal(p)
  BY <1>1, <1>5, StepSlots
<1> QED
  BY <1>3, <1>4, <1>5 DEF Writes

(* Tables that have been replaced keep their answers.                       *)
LEMMA OldLookup ==
  ASSUME IndInv, ContentsInv, NEW p \in Threads, Invoke(p) \/ Work(p),
         NEW t \in Tables, t <= ht, t # ht', NEW k \in Keys
  PROVE  Lookup(t, k)' = Lookup(t, k)
<1>1. CASE PutKey(p) \/ PutLink(p) \/ RemoveKey(p)
  <2>1. t # ht
    BY <1>1 DEF PutKey, PutLink, RemoveKey
  <2> QED
    BY <1>1, <2>1, UpdateLookup DEF Changed
<1>2. CASE CopySlot(p) /\ key[rs[p].old][rs[p].bin][ix[p]] # None
  <2>1. t # ht + 1
    BY DEF IndInv, TypeOK, TablesOK, Tables
  <2> QED
    BY <1>2, <2>1, CopyLookup DEF Changed
<1>3. CASE ~Writes(p) \/ PutVal(p)
  BY <1>3, StepLookup DEF Kept
<1> QED
  BY <1>1, <1>2, <1>3 DEF Writes

(* A call changes tables when it opens and after it waited, and then it     *)
(* takes the current one.                                                   *)
LEMMA TableChanges ==
  ASSUME IndInv, NEW p \in Threads, Work(p), ~Return(p)
  PROVE  tab' = tab \/ (tab'[p] = ht /\ ht' = ht)
<1>1. tab \in [Threads -> Tables]
  BY DEF IndInv, TypeOK, ThreadsOK
<1>2. CASE Get(p) \/ Exists(p)
  BY <1>2 DEF Get, GetVal, GetKey, GetCheck, GetNext, Exists, ExistsKey, ExistsNext
<1>3. CASE Lock(p) \/ Release(p)
  BY <1>1, <1>3 DEF Lock, LockAcquire, LockResized, AwaitNewTable, Reread, Release, shared
<1>4. CASE Put(p) \/ Remove(p)
  BY <1>4 DEF Put, PutFound, PutVal, PutKey, PutExpand, PutLink, Remove, RemoveKey, RemoveMiss
<1>5. CASE Status(p) \/ Resize(p)
  BY <1>5 DEF Status, StatusLock, Count, StatusUnlock, Resize, ResizeOld, ResizeBusy,
              ResizeStart, MarkBucket, MarkedBefore, CopySlot, Swap, Publish, ResizeUnlock
<1> QED
  BY <1>2, <1>3, <1>4, <1>5 DEF Work

(* Every step keeps what the calls have seen up to date.                    *)
LEMMA SeenNowStep ==
  ASSUME IndInv, IndInv', ContentsInv, AnswersInv, NEW p \in Threads, Invoke(p) \/ Work(p), Watch
  PROVE  SeenNow'
<1>1. PICK u \in Tables : u = ht'
  BY DEF IndInv, TypeOK, TablesOK
<1>2. \A k \in Keys : AbsMap'[k] = Lookup(u, k)'
  BY <1>1 DEF AbsMap
<1>3. ASSUME NEW q \in Threads, call'[q] # Idle
      PROVE  AbsMap'[call'[q].key] \in seen'[q] /\ Lookup(tab[q], call[q].key)' \in seen'[q]
  <2>1. CASE call[q] = Idle
    <3>1. /\ call'[q].key \in Keys /\ AbsMap'[call'[q].key] \in seen'[q] /\ tab'[q] = u
      BY <1>1, <1>3, <2>1, Opens DEF Invoke, shared
    <3> QED
      BY <1>2, <3>1
  <2>2. CASE call[q] # Idle
    <3>1. /\ call'[q] = call[q] /\ call[q].key \in Keys /\ (q = p => ~Invoke(p))
          /\ seen[q] \subseteq seen'[q] /\ AbsMap'[call[q].key] \in seen'[q]
      BY <1>3, <2>2, StaysOpen DEF Opened
    <3>2. CASE tab'[q] = u
      BY <1>2, <3>1, <3>2
    <3>3. CASE tab'[q] # u
      <4>1. tab'[q] = tab[q]
        <5>1. CASE q # p
          BY <5>1, OthersStand DEF Stands, IndInv
        <5>2. CASE q = p
          <6>1. ~Return(p)
            BY <1>3, <5>2 DEF Return, IndInv, TypeOK, ThreadsOK
          <6> QED
            BY <1>1, <3>1, <3>3, <5>2, <6>1, TableChanges
        <5> QED
          BY <5>1, <5>2
      <4>2. PICK t \in Tables : t = tab[q]
        BY Thread DEF IndInv
      <4>3. t <= ht /\ t # ht'
        BY <1>1, <3>3, <4>1, <4>2 DEF IndInv, OldTablesMarked
      <4>4. PICK k \in Keys : k = call[q].key
        BY <3>1
      <4>5. Lookup(t, k)' = Lookup(t, k)
        BY <4>3, OldLookup
      <4>6. Lookup(t, k) \in seen[q]
        BY <2>2, <4>2, <4>4 DEF AnswersInv, SeenNow
      <4> QED
        BY <3>1, <4>1, <4>2, <4>4, <4>5, <4>6
    <3> QED
      BY <3>2, <3>3
  <2> QED
    BY <2>1, <2>2
<1>4. ASSUME NEW q \in Threads, call'[q] = Idle PROVE seen'[q] = {}
  BY <1>4 DEF Watch
<1> QED
  BY <1>3, <1>4 DEF SeenNow
-----------------------------------------------------------------------------
(* The places of a search, and the steps that lead to them.                 *)
Searching == {"get", "getkey", "getnext", "exists", "existsnext"}
Passing   == {"getnext", "existsnext"}

(* How a search moves through its chain.                                    *)
LEMMA SearchSteps ==
  ASSUME IndInv, NEW p \in Threads, Work(p), pc'[p] \in Searching
  PROVE  /\ call'[p] = call[p] /\ tab'[p] = tab[p] /\ pc[p] \in Searching
         /\ \/ GetVal(p) /\ ix'[p] = ix[p] /\ pc'[p] = "getkey"
            \/ KeyAt(p) # call[p].key /\ ix'[p] = ix[p] + 1 /\ pc'[p] \notin Passing
            \/ KeyAt(p) # call[p].key /\ ix'[p] = ix[p] /\ pc'[p] \in Passing
            \/ pc[p] \in Passing /\ ix'[p] = ix[p] + 1 /\ pc'[p] \notin Passing
<1> USE DEF Goto, Searching, Passing
<1>1. /\ pc \in [Threads -> Labels] /\ ix \in [Threads -> Nat \ {0}]
  BY DEF IndInv, TypeOK, ThreadsOK
<1>2. CASE Return(p) \/ Lock(p) \/ Release(p)
  BY <1>1, <1>2 DEF Return, Lock, LockAcquire, LockResized, AwaitNewTable, Reread, Release
<1>3. CASE GetVal(p) \/ GetCheck(p)
  BY <1>1, <1>3 DEF GetVal, GetCheck
<1>4. CASE GetKey(p)
  BY <1>1, <1>4 DEF GetKey, Advance
<1>5. CASE GetNext(p)
  BY <1>1, <1>5 DEF GetNext, Follow
<1>6. CASE ExistsKey(p)
  BY <1>1, <1>6 DEF ExistsKey, Advance
<1>7. CASE ExistsNext(p)
  BY <1>1, <1>7 DEF ExistsNext, Follow
<1>8. CASE Put(p) \/ Remove(p)
  BY <1>1, <1>8 DEF Put, PutFound, PutVal, PutKey, PutExpand, PutLink, Remove, RemoveKey,
                    RemoveMiss
<1>9. CASE Status(p) \/ Resize(p)
  BY <1>1, <1>9 DEF Status, StatusLock, Count, StatusUnlock, Resize, ResizeOld, ResizeBusy,
                    ResizeStart, MarkBucket, MarkedBefore, CopySlot, NextBucket, Swap,
                    Publish, ResizeUnlock
<1> QED
  BY <1>2, <1>3, <1>4, <1>5, <1>6, <1>7, <1>8, <1>9 DEF Work, Get, Exists

(* A search that has not seen its key missing still has it ahead.           *)
Ahead(q) ==
  \/ None \in seen[q]
  \/ \E i \in SlotsWith(Chain(q), call[q].key) :
       ix[q] <= i /\ (pc[q] \in Passing => ix[q] < i)

(* No step makes a search miss a key that was always there.                 *)
LEMMA NotMissedStep ==
  ASSUME IndInv, IndInv', ContentsInv, AnswersInv, NEW p \in Threads, Invoke(p) \/ Work(p), Watch
  PROVE  NotMissed'
<1>1. ASSUME NEW q \in Threads, pc[q] \in Searching
      PROVE  Ahead(q) /\ call[q] # Idle
  BY <1>1 DEF AnswersInv, NotMissed, ContentsInv, Phases, Searching, Ahead, Passing
<1>2. ASSUME NEW q \in Threads, tab'[q] = tab[q], call'[q] = call[q], call[q] # Idle
      PROVE  \/ None \in seen'[q]
             \/ SlotsWith(Chain(q), call[q].key)' = SlotsWith(Chain(q), call[q].key)
  <2>1. Bin(q)' = Bin(q)
    BY <1>2, BinStays
  <2> QED
    BY <1>2, <2>1, OpenView DEF Opened, SlotsStay, Chain, Bin
<1>3. ASSUME NEW q \in Threads, call'[q] = call[q], call[q] # Idle
      PROVE  seen[q] \subseteq seen'[q]
  BY <1>3, StaysOpen DEF Opened
<1>4. ASSUME NEW q \in Threads, q # p, pc'[q] \in Searching PROVE Ahead(q)'
  <2>1. Stands(q)
    BY <1>4, OthersStand DEF IndInv
  <2> QED
    BY <1>1, <1>2, <1>3, <1>4, <2>1 DEF Stands, Ahead
<1>5. ASSUME Invoke(p), pc'[p] \in Searching PROVE Ahead(p)'
  <2>1. PICK u \in Tables : u = ht /\ ht' = u
    BY <1>5 DEF IndInv, TypeOK, TablesOK, Invoke, shared
  <2>2. pc[p] = "idle"
    BY <1>5 DEF Invoke
  <2>3. call[p] = Idle /\ call'[p] # Idle
    <3>1. ContentsInv'
      BY ContentsStep
    <3> QED
      BY <1>5, <2>2, <3>1 DEF ContentsInv, Phases, Searching
  <2>4. /\ tab'[p] = u /\ ix'[p] = 1 /\ call'[p].key \in Keys
        /\ seen'[p] = {AbsMap'[call'[p].key]}
    BY <2>1, <2>3, Opens
  <2>5. AbsMap'[call'[p].key] = Lookup(tab[p], call[p].key)'
    BY <2>1, <2>4 DEF AbsMap
  <2>6. CASE SlotsWith(Chain(p), call[p].key)' = {}
    <3>1. Lookup(tab[p], call[p].key)' = None
      BY <2>6 DEF Lookup, Chain, Bin
    <3> QED
      BY <2>4, <2>5, <3>1 DEF Ahead
  <2>7. CASE SlotsWith(Chain(p), call[p].key)' # {}
    <3>1. PICK i \in SlotsWith(Chain(p), call[p].key)' : TRUE
      BY <2>7
    <3>2. i \in Nat /\ i >= 1
      BY <3>1 DEF SlotsWith
    <3>3. pc'[p] \notin Passing
      BY <1>5 DEF Invoke, Goto, Passing, IndInv, TypeOK, ThreadsOK
    <3> QED
      BY <2>4, <3>1, <3>2, <3>3 DEF Ahead
  <2> QED
    BY <2>6, <2>7
<1>6. ASSUME Work(p), pc'[p] \in Searching PROVE Ahead(p)'
  <2>1. /\ call'[p] = call[p] /\ tab'[p] = tab[p] /\ pc[p] \in Searching
        /\ \/ GetVal(p) /\ ix'[p] = ix[p] /\ pc'[p] = "getkey"
           \/ KeyAt(p) # call[p].key /\ ix'[p] = ix[p] + 1 /\ pc'[p] \notin Passing
           \/ KeyAt(p) # call[p].key /\ ix'[p] = ix[p] /\ pc'[p] \in Passing
           \/ pc[p] \in Passing /\ ix'[p] = ix[p] + 1 /\ pc'[p] \notin Passing
    BY <1>6, SearchSteps
  <2>2. CASE None \in seen'[p]
    BY <2>2 DEF Ahead
  <2>3. CASE None \notin seen'[p]
    <3>1. /\ SlotsWith(Chain(p), call[p].key)' = SlotsWith(Chain(p), call[p].key)
          /\ None \notin seen[p]
      BY <1>1, <1>2, <1>3, <2>1, <2>3
    <3>2. PICK i \in SlotsWith(Chain(p), call[p].key) :
            ix[p] <= i /\ (pc[p] \in Passing => ix[p] < i)
      BY <1>1, <2>1, <3>1 DEF Ahead
    <3>3. i \in Nat /\ ix[p] \in Nat /\ (KeyAt(p) # call[p].key => i # ix[p])
      BY <3>2, Thread DEF SlotsWith, KeyAt, Chain, IndInv
    <3>4. ix'[p] <= i /\ (pc'[p] \in Passing => ix'[p] < i)
      BY <2>1, <3>2, <3>3 DEF Passing
    <3> QED
      BY <3>1, <3>2, <3>4 DEF Ahead
  <2> QED
    BY <2>2, <2>3
<1>7. \A q \in Threads : pc'[q] \in Searching => Ahead(q)'
  BY <1>4, <1>5, <1>6
<1> QED
  BY <1>7 DEF NotMissed, Searching, Ahead, Passing

(* The value of a slot that exists changes when a put prepares it, and then *)
(* to the value of that put.                                                *)
LEMMA SlotValue ==
  ASSUME IndInv, ContentsInv, NEW p \in Threads, Invoke(p) \/ Work(p),
         NEW t \in Tables, t <= ht, NEW b \in Bins, NEW i \in 1..Len(val[t][b])
  PROVE  \/ val'[t][b][i] = val[t][b][i]
         \/ PutVal(p) /\ val'[t][b][i] = call[p].val
<1>1. val \in [Tables -> [Bins -> Seq(Vals \cup {None})]]
  BY DEF IndInv, TypeOK, TablesOK
<1>2. CASE PutVal(p)
  <2>1. PICK j : val' = [val EXCEPT ![tab[p]][Bin(p)][j] = call[p].val]
    BY <1>2 DEF PutVal
  <2>2. \/ val'[t][b] = val[t][b]
        \/ val'[t][b] = [val[t][b] EXCEPT ![j] = call[p].val]
    BY <1>1, <2>1
  <2>3. val[t][b] \in Seq(Vals \cup {None})
    BY <1>1
  <2> QED
    BY <1>2, <2>2, <2>3
<1>3. CASE PutLink(p)
  BY <1>3, PutLinkEffect DEF ValuesStay
<1>4. CASE CopySlot(p) /\ key[rs[p].old][rs[p].bin][ix[p]] # None
  <2>1. rs[p].new = ht + 1 /\ t # ht + 1
    <3>1. pc[p] \in Copying
      BY <1>4 DEF CopySlot, Copying
    <3>2. rs[p].new = ht + 1 /\ rs[p].old = ht /\ rs[p].old \in Tables
      BY <3>1, Resizer
    <3> QED
      BY <3>2 DEF Tables
  <2>2. \E c : Elsewhere(rs[p].new, c)
    BY <1>4, CopyEffect DEF Stores
  <2> QED
    BY <2>1, <2>2 DEF Elsewhere
<1>5. CASE ~Writes(p) \/ PutKey(p) \/ RemoveKey(p)
  BY <1>5, NoEffect DEF PutKey, RemoveKey
<1> QED
  BY <1>2, <1>3, <1>4, <1>5 DEF Writes

(* A get that compares: while its slot holds its key the slot holds the     *)
(* value that the key has, and the get has read it or seen the key missing. *)
Compared(q) ==
  /\ pc[q] = "getkey" /\ KeyAt(q) = call[q].key /\ ValAt(q) # ret[q] => None \in seen[q]
  /\ pc[q] = "getcheck" /\ (KeyAt(q) # call[q].key \/ ValAt(q) # ret[q]) => None \in seen[q]
  /\ pc[q] = "getcheck" /\ ValAt(q) = ret[q] => ret[q] \in seen[q]

(* The steps of the others ...                                              *)
LEMMA ComparedStands ==
  ASSUME IndInv, ContentsInv, AnswersInv, NEW p \in Threads, Invoke(p) \/ Work(p), Watch,
         NEW q \in Threads, q # p, Comparing(q)
  PROVE  Compared(q)'
<1> DEFINE t == tab[q]
           k == call[q].key
           b == Bin(q)
           i == ix[q]
<1>1. Stands(q) /\ ret'[q] = ret[q] /\ Bin(q)' = b
  BY OthersStand, OthersKeepRet, BinStays DEF IndInv, Stands
<1>2. /\ Opened(q) /\ seen[q] \subseteq seen'[q]
      /\ None \in seen'[q] \/ SlotsStay(t, k)
  <2>1. Opened(q)
    BY <1>1 DEF Stands, Opened, ContentsInv, Phases, Comparing
  <2> QED
    BY <2>1, StaysOpen, OpenView
<1>3. Compared(q)
  BY DEF AnswersInv, ValueOfKey, Compared
<1>4. /\ t \in Tables /\ t <= ht /\ b \in Bins /\ i \in 1..Len(key[t][b])
      /\ i \in 1..Len(val[t][b]) /\ b = clht_hash(t, k)
  BY ScanSlot DEF Comparing, Scanning, IndInv, OldTablesMarked, Bin
<1>5. i \in 1..Len(key'[t][b])
  <2>1. ChainsGrow /\ ChainsOK'
    BY <1>4, ChainsStep, ChainsFromTables DEF IndInv, TypeOK
  <2>2. Len(key[t][b]) <= Len(key'[t][b]) /\ Len(key'[t][b]) \in Nat /\ Len(key[t][b]) \in Nat
    <3>1. key'[t][b] \in Seq(Keys \cup {None}) /\ key[t][b] \in Seq(Keys \cup {None})
      BY <1>4, <2>1 DEF ChainsOK, IndInv, TypeOK, TablesOK
    <3> QED
      BY <1>4, <2>1, <3>1 DEF ChainsGrow
  <2> HIDE DEF t, b, i
  <2> QED
    BY <1>4, <2>2
<1>6. /\ KeyAt(q) = key[t][b][i] /\ ValAt(q) = val[t][b][i]
      /\ KeyAt(q)' = key'[t][b][i] /\ ValAt(q)' = val'[t][b][i]
  BY <1>1 DEF KeyAt, ValAt, Stands
<1>7. SlotsStay(t, k) =>
        /\ KeyAt(q)' = k <=> KeyAt(q) = k
        /\ KeyAt(q) = k => ValAt(q)' = ValAt(q)
  <2> SUFFICES ASSUME SlotsStay(t, k)
               PROVE  /\ KeyAt(q)' = k <=> KeyAt(q) = k
                      /\ KeyAt(q) = k => ValAt(q)' = ValAt(q)
    OBVIOUS
  <2>2. SlotsWith(key'[t][b], k) = SlotsWith(key[t][b], k)
    BY <1>4 DEF SlotsStay
  <2>3. \A j \in SlotsWith(key[t][b], k) : val'[t][b][j] = val[t][b][j]
    BY <1>4 DEF SlotsStay
  <2>4. /\ KeyAt(q) = k <=> i \in SlotsWith(key[t][b], k)
        /\ KeyAt(q)' = k <=> i \in SlotsWith(key'[t][b], k)
    BY <1>4, <1>5, <1>6 DEF SlotsWith
  <2> QED
    BY <1>6, <2>2, <2>3, <2>4
<1>8. ValAt(q)' = ret[q] => ValAt(q) = ret[q]
  <2>1. CASE val'[t][b][i] = val[t][b][i]
    BY <1>6, <2>1
  <2>2. CASE PutVal(p) /\ val'[t][b][i] = call[p].val
    <3>1. Pending(p)
      BY <2>2 DEF PutVal, Pending
    <3> QED
      BY <1>6, <2>2, <3>1 DEF AnswersInv, FreshValues
  <2> QED
    BY <1>4, <2>1, <2>2, SlotValue
<1> QED
  BY <1>1, <1>2, <1>3, <1>7, <1>8 DEF Compared, Stands

(* ... and those of the get itself.                                         *)
LEMMA ComparedMoves ==
  ASSUME IndInv, ContentsInv, AnswersInv, NEW p \in Threads, Invoke(p) \/ Work(p), Watch,
         Comparing(p)'
  PROVE  Compared(p)'
<1>1. /\ call'[p] = call[p] /\ tab'[p] = tab[p] /\ ix'[p] = ix[p]
      /\ GetVal(p) \/ (GetKey(p) /\ ret'[p] = ret[p] /\ pc'[p] = "getcheck"
                       /\ KeyAt(p) = call[p].key)
  BY ComparingSteps
<1>2. UNCHANGED <<key, val, num_buckets>> /\ pc[p] \in {"get", "getkey"}
  BY <1>1 DEF GetVal, GetKey, shared
<1>3. KeyAt(p)' = KeyAt(p) /\ ValAt(p)' = ValAt(p)
  BY <1>1, <1>2 DEF KeyAt, ValAt, Bin, clht_hash
<1>4. Opened(p) /\ seen[p] \subseteq seen'[p]
  <2>1. Opened(p)
    BY <1>1, <1>2 DEF Opened, ContentsInv, Phases
  <2> QED
    BY <2>1, StaysOpen
<1>5. CASE GetVal(p)
  <2>1. pc'[p] = "getkey" /\ ret'[p] = ValAt(p)
    BY <1>5 DEF GetVal, Goto, IndInv, TypeOK, ThreadsOK
  <2> QED
    BY <1>1, <1>3, <2>1 DEF Compared
<1>6. CASE GetKey(p) /\ ret'[p] = ret[p] /\ pc'[p] = "getcheck" /\ KeyAt(p) = call[p].key
  <2>1. ValAt(p) # ret[p] => None \in seen[p]
    BY <1>6 DEF GetKey, AnswersInv, ValueOfKey
  <2>2. ValAt(p) \in seen[p]
    <3>1. /\ tab[p] \in Tables /\ Bin(p) \in Bins /\ ix[p] \in 1..Len(key[tab[p]][Bin(p)])
      BY <1>6, ScanSlot DEF GetKey, Scanning
    <3>2. ix[p] \in SlotsWith(key[tab[p]][Bin(p)], call[p].key)
      BY <1>6, <3>1 DEF SlotsWith, KeyAt
    <3>3. call[p].key \in Keys /\ TablesOK /\ UniqueKeys
      BY <1>4, StaysOpen DEF IndInv, TypeOK, ContentsInv
    <3>4. Lookup(tab[p], call[p].key) = ValAt(p)
      BY <3>1, <3>2, <3>3, LookupSlot DEF ValAt, Bin
    <3>5. Lookup(tab[p], call[p].key) \in seen[p]
      BY <1>4 DEF AnswersInv, SeenNow, Opened
    <3> QED
      BY <3>4, <3>5
  <2> QED
    BY <1>1, <1>3, <1>4, <1>6, <2>1, <2>2 DEF Compared
<1> QED
  BY <1>1, <1>5, <1>6

(* Every step keeps what the comparing gets know right.                     *)
LEMMA ValueOfKeyStep ==
  ASSUME IndInv, ContentsInv, AnswersInv, NEW p \in Threads, Invoke(p) \/ Work(p), Watch
  PROVE  ValueOfKey'
<1>1. ASSUME NEW q \in Threads, Comparing(q)' PROVE Compared(q)'
  <2>1. CASE q = p
    BY <1>1, <2>1, ComparedMoves
  <2>2. CASE q # p
    <3>1. Comparing(q)
      BY <1>1, <2>2, OthersStand DEF Stands, Comparing, IndInv
    <3> QED
      BY <2>2, <3>1, ComparedStands
  <2> QED
    BY <2>1, <2>2
<1> QED
  BY <1>1 DEF ValueOfKey, Compared, Comparing

(* What an update under the lock finds, its call has seen.                  *)
LEMMA Found ==
  ASSUME IndInv, ContentsInv, AnswersInv, NEW p \in Threads, call[p] # Idle
  PROVE  /\ SlotsWith(Chain(p), call[p].key) # {} => seen[p] \cap Vals # {}
         /\ SlotsWith(Chain(p), call[p].key) = {} => None \in seen[p]
<1>1. /\ TablesOK /\ UniqueKeys /\ KeysInPlace /\ tab[p] \in Tables
      /\ call[p].key \in Keys /\ Chain(p) = key[tab[p]][clht_hash(tab[p], call[p].key)]
  BY Thread, Caller DEF IndInv, TypeOK, ContentsInv, Phases, Chain, Bin
<1>2. /\ Lookup(tab[p], call[p].key) \in seen[p]
      /\ seen[p] \subseteq Vals \cup {None}
  BY DEF AnswersInv, SeenNow, IndInv, TypeOK
<1>3. Lookup(tab[p], call[p].key) = None <=> SlotsWith(Chain(p), call[p].key) = {}
  BY <1>1, Absent
<1> QED
  BY <1>2, <1>3

(* Every step keeps the refusals justified.                                 *)
LEMMA RefusedStep ==
  ASSUME IndInv, ContentsInv, AnswersInv, NEW p \in Threads, Invoke(p) \/ Work(p), Watch
  PROVE  Refused'
<1> DEFINE Right(q) == pc[q] = "release" /\ ret[q] = None =>
                         /\ call[q].op = "put" => seen[q] \cap Vals # {}
                         /\ call[q].op = "remove" => None \in seen[q]
<1>1. ContentsInv'
  BY ContentsStep
<1>2. ASSUME NEW q \in Threads, pc'[q] = "release", pc[q] # "idle"
      PROVE  Opened(q) /\ seen[q] \subseteq seen'[q] /\ call'[q] = call[q]
  <2>1. Opened(q)
    BY <1>1, <1>2 DEF ContentsInv, Phases, Opened
  <2> QED
    BY <2>1, StaysOpen
<1>3. ASSUME NEW q \in Threads, q # p PROVE Right(q)'
  <2>1. Stands(q) /\ ret'[q] = ret[q]
    BY <1>3, OthersStand, OthersKeepRet DEF IndInv
  <2>2. Right(q)
    BY DEF AnswersInv, Refused
  <2> QED
    BY <1>2, <2>1, <2>2 DEF Stands
<1>4. Right(p)'
  <2> SUFFICES ASSUME pc'[p] = "release", ret'[p] = None
               PROVE  /\ call'[p].op = "put" => seen'[p] \cap Vals # {}
                      /\ call'[p].op = "remove" => None \in seen'[p]
    OBVIOUS
  <2>1. /\ pc \in [Threads -> Labels] /\ ret \in [Threads -> Vals \cup {None}]
    BY DEF IndInv, TypeOK, ThreadsOK
  <2>2. CASE PutFound(p) \/ RemoveMiss(p)
    <3>1. /\ seen[p] \subseteq seen'[p] /\ call'[p] = call[p] /\ call[p] # Idle
      BY <1>2, <2>2 DEF PutFound, RemoveMiss, Opened
    <3>2. /\ PutFound(p) => call[p].op = "put" /\ SlotsWith(Chain(p), call[p].key) # {}
          /\ RemoveMiss(p) => call[p].op = "remove" /\ SlotsWith(Chain(p), call[p].key) = {}
      BY DEF PutFound, RemoveMiss
    <3> QED
      BY <2>2, <3>1, <3>2, Found
  <2>3. CASE PutKey(p) \/ PutLink(p)
    <3>1. call[p].val # None /\ ret'[p] = call[p].val
      BY <2>1, <2>3 DEF PutKey, PutLink, ContentsInv, Phases
    <3> QED
      BY <3>1
  <2>4. CASE RemoveKey(p)
    BY <2>1, <2>4, AbsStep
  <2>5. ~PutFound(p) /\ ~RemoveMiss(p) /\ ~PutKey(p) /\ ~PutLink(p) /\ ~RemoveKey(p) => FALSE
    <3> USE DEF Goto
    <3>1. CASE Invoke(p) \/ Return(p) \/ Get(p) \/ Exists(p)
      BY <2>1, <3>1 DEF Invoke, Return, Get, GetVal, GetKey, GetCheck, GetNext, Exists,
                        ExistsKey, ExistsNext, Advance, Follow
    <3>2. CASE Lock(p) \/ Release(p) \/ PutVal(p) \/ PutExpand(p)
      BY <2>1, <3>2 DEF Lock, LockAcquire, LockResized, AwaitNewTable, Reread, Release,
                        PutVal, PutExpand
    <3>3. CASE Status(p) \/ Resize(p)
      BY <2>1, <3>3 DEF Status, StatusLock, Count, StatusUnlock, Resize, ResizeOld, ResizeBusy,
                        ResizeStart, MarkBucket, MarkedBefore, CopySlot, NextBucket, Swap,
                        Publish, ResizeUnlock
    <3> QED
      BY <3>1, <3>2, <3>3 DEF Work, Put, Remove
  <2> QED
    BY <2>2, <2>3, <2>4, <2>5
<1>5. \A q \in Threads : Right(q)'
  BY <1>3, <1>4
<1> QED
  BY <1>5 DEF Refused
-----------------------------------------------------------------------------
(* The invariant.                                                           *)
LEMMA InitMap == Init => MapInv
<1> SUFFICES ASSUME Init PROVE MapInv
  OBVIOUS
<1>1. /\ \A t \in Tables, b \in Bins : key[t][b] = EmptyChain /\ val[t][b] = EmptyChain
      /\ Len(EmptyChain) = Entries /\ \A i \in 1..Entries : EmptyChain[i] = None
      /\ \A p \in Threads : pc[p] = "idle" /\ call[p] = Idle /\ ret[p] = None /\ ~resize[p]
  BY EntriesAssumption DEF Init, EmptyChain
<1>2. IndInv
  BY InitInv
<1>3. KeysInPlace /\ UniqueKeys
  BY <1>1 DEF KeysInPlace, UniqueKeys
<1>4. FreshTables /\ MarksOfResizer
  BY <1>1 DEF FreshTables, MarksOfResizer, Init, LOCK_FREE, LOCK_RESIZE
<1>5. CopyFaithful /\ Phases /\ PutsReady
  BY <1>1 DEF CopyFaithful, Phases, PutsReady, Copying, Resizing, Sizing, Idle
<1>6. FreshValues
  <2>1. puts = 0 /\ \A p \in Threads : ~Pending(p) /\ ~Comparing(p) /\ call[p].val = 0
    BY <1>1 DEF Init, Pending, Comparing, Idle
  <2>2. \A t \in Tables, b \in Bins : \A i \in 1..Len(val[t][b]) : val[t][b][i] = 0
    BY <1>1
  <2> QED
    BY <2>1, <2>2 DEF FreshValues
<1>7. SeenNow /\ NotMissed /\ ValueOfKey /\ Refused
  BY <1>1 DEF SeenNow, NotMissed, ValueOfKey, Refused, Init
<1> QED
  BY <1>3, <1>4, <1>5, <1>6, <1>7 DEF MapInv, ContentsInv, AnswersInv

(* It is inductive together with IndInv.                                    *)
LEMMA StepMap == IndInv /\ MapInv /\ [Next]_vars => MapInv'
<1> SUFFICES ASSUME IndInv, MapInv, [Next]_vars PROVE MapInv'
  OBVIOUS
<1>1. IndInv' /\ ContentsInv /\ AnswersInv
  BY StepInv DEF MapInv
<1>2. CASE Next
  <2>1. PICK p \in Threads : Invoke(p) \/ Work(p)
    BY <1>2 DEF Next
  <2>2. ContentsInv' /\ FreshValues'
    BY <1>1, <2>1, ContentsStep, FreshValuesStep
  <2>3. SeenNow' /\ NotMissed' /\ ValueOfKey' /\ Refused'
    BY <1>1, <1>2, <2>1, SeenNowStep, NotMissedStep, ValueOfKeyStep, RefusedStep DEF Next
  <2> QED
    BY <2>2, <2>3 DEF MapInv, AnswersInv
<1>3. CASE UNCHANGED vars
  <2> USE <1>3 DEF vars, shared, resizing
  <2>1. /\ \A t, k : Lookup(t, k)' = Lookup(t, k)
        /\ AbsMap' = AbsMap
    BY DEF Lookup, clht_hash, AbsMap
  <2>2. \A p \in Threads : /\ Bin(p)' = Bin(p) /\ Chain(p)' = Chain(p)
                           /\ KeyAt(p)' = KeyAt(p) /\ ValAt(p)' = ValAt(p)
                           /\ Pending(p)' = Pending(p) /\ Comparing(p)' = Comparing(p)
    BY DEF Bin, clht_hash, Chain, KeyAt, ValAt, Pending, Comparing
  <2>3. \A p, b, i : Copied(p, b, i)' = Copied(p, b, i) /\ Passed(p, b)' = Passed(p, b)
    BY DEF Copied, Passed
  <2>4. \A p \in Threads, k \in Keys : CopiedKey(p, k)' = CopiedKey(p, k)
    BY <2>3 DEF CopiedKey, clht_hash
  <2>5. KeysInPlace' /\ FreshTables' /\ UniqueKeys' /\ MarksOfResizer'
    BY <1>1, <2>3 DEF ContentsInv, KeysInPlace, FreshTables, UniqueKeys, MarksOfResizer, clht_hash
  <2>6. CopyFaithful' /\ Phases' /\ PutsReady'
    BY <1>1, <2>1, <2>2, <2>4 DEF ContentsInv, CopyFaithful, Phases, PutsReady
  <2>7. FreshValues'
    BY <1>1, <2>2 DEF AnswersInv, FreshValues
  <2>8. SeenNow' /\ NotMissed'
    BY <1>1, <2>1, <2>2 DEF AnswersInv, SeenNow, NotMissed
  <2>9. ValueOfKey' /\ Refused'
    BY <1>1, <2>2 DEF AnswersInv, ValueOfKey, Refused
  <2> QED
    BY <2>5, <2>6, <2>7, <2>8, <2>9 DEF MapInv, ContentsInv, AnswersInv
<1> QED
  BY <1>2, <1>3

(* MapInv holds in every reachable state, for all constants.                *)
THEOREM MapInvariance == Spec => []MapInv
<1>1. IndInv /\ MapInv /\ [Next]_vars => IndInv' /\ MapInv'
  BY StepInv, StepMap
<1> QED
  BY <1>1, InitMap, InitInv, PTL DEF Spec

(* No table ever holds a key twice, although puts look for the key without  *)
(* the lock and their table may be replaced before they have it.            *)
THEOREM NoDuplicates == Spec => []UniqueKeys
<1>1. MapInv => UniqueKeys
  BY DEF MapInv, ContentsInv
<1> QED
  BY <1>1, MapInvariance, PTL

(* The table that a resize swaps in holds exactly the entries of the table  *)
(* it replaces, although gets, puts and removes go on while it is filled.   *)
THEOREM ResizesLoseNothing == Spec => []ResizeKeepsContents
<1>1. IndInv /\ MapInv => ResizeKeepsContents
  BY AllCopied DEF MapInv
<1> QED
  BY <1>1, Invariance, MapInvariance, PTL
-----------------------------------------------------------------------------
(* The refinement of the atomic map: its variables, as named functions.     *)
StageMap == [p \in Threads |-> Stage(p)]
ResMap   == [p \in Threads |-> IF Stage(p) = "open" THEN None ELSE ret[p]]

(* A call that is on its way and stays so changes nothing that the map      *)
(* knows: a get may do what it likes with the value it has read, a put or   *)
(* remove has one only once it has taken effect.                            *)
OnTheWay(p) ==
  /\ pc[p] \notin {"idle", "done"} /\ pc'[p] \notin {"idle", "done"} /\ call' = call
  /\ call[p].op = "get" \/ ret'[p] = ret[p]

(* A step of p is none of another thread in the abstract map.               *)
LEMMA StagesStand ==
  ASSUME IndInv, IndInv', NEW p \in Threads, Invoke(p) \/ Work(p), NEW q \in Threads, q # p
  PROVE  StageMap'[q] = StageMap[q] /\ ResMap'[q] = ResMap[q]
<1>1. Stands(q) /\ ret'[q] = ret[q]
  BY OthersStand, OthersKeepRet DEF IndInv
<1>2. Stage(q)' = Stage(q)
  BY <1>1 DEF Stands, Stage
<1> QED
  BY <1>1, <1>2 DEF StageMap, ResMap

(* A step of p changes what the map knows of p only.                        *)
LEMMA StageSteps ==
  ASSUME IndInv, IndInv', NEW p \in Threads, Invoke(p) \/ Work(p)
  PROVE  /\ StageMap' = [StageMap EXCEPT ![p] = Stage(p)']
         /\ ResMap' = [ResMap EXCEPT ![p] = IF Stage(p)' = "open" THEN None ELSE ret'[p]]
<1>1. StageMap'[p] = Stage(p)' /\ ResMap'[p] = IF Stage(p)' = "open" THEN None ELSE ret'[p]
  BY DEF StageMap, ResMap
<1>2. \A q \in Threads : q # p => StageMap'[q] = StageMap[q] /\ ResMap'[q] = ResMap[q]
  BY StagesStand
<1>3. /\ StageMap = [q \in Threads |-> StageMap[q]] /\ StageMap' = [q \in Threads |-> StageMap'[q]]
      /\ ResMap = [q \in Threads |-> ResMap[q]] /\ ResMap' = [q \in Threads |-> ResMap'[q]]
  BY DEF StageMap, ResMap
<1> HIDE DEF StageMap, ResMap
<1> QED
  BY <1>1, <1>2, <1>3

(* The kinds of steps: those that open and close a call, those that change  *)
(* the map, those that answer, and the others.                              *)
Answers(p) ==
  \/ ExistsKey(p) /\ KeyAt(p) = call[p].key /\ call[p].op = "put"
  \/ ExistsNext(p) /\ ~(ix[p] < Len(Chain(p))) /\ call[p].op = "remove"
  \/ GetCheck(p)
  \/ GetNext(p) /\ ~(ix[p] < Len(Chain(p)))
  \/ Release(p) /\ ~resize[p]
  \/ StatusUnlock(p) /\ nest[p] = 1
Applies(p) == PutKey(p) \/ PutLink(p) \/ RemoveKey(p)

(* A step of a call that neither changes the map nor answers is on the way. *)
LEMMA WayKinds ==
  ASSUME IndInv, ContentsInv, NEW p \in Threads, Work(p), ~Return(p), ~Applies(p), ~Answers(p)
  PROVE  OnTheWay(p)
<1> USE DEF Goto, OnTheWay
<1>1. /\ pc \in [Threads -> Labels] /\ ret \in [Threads -> Vals \cup {None}]
      /\ pc[p] \in {"get", "getkey", "getcheck", "getnext"} => call[p].op = "get"
      /\ pc[p] \in {"exists", "existsnext"} => call[p].op \in {"put", "remove"}
  BY DEF IndInv, TypeOK, ThreadsOK, ContentsInv, Phases
<1>2. CASE Get(p)
  BY <1>1, <1>2 DEF Get, GetVal, GetKey, GetCheck, GetNext, Advance, Follow, Answers
<1>3. CASE Exists(p)
  BY <1>1, <1>3 DEF Exists, ExistsKey, ExistsNext, Advance, Follow, Answers
<1>4. CASE Lock(p) \/ Release(p)
  BY <1>1, <1>4 DEF Lock, LockAcquire, LockResized, AwaitNewTable, Reread, Release, Answers
<1>5. CASE Put(p) \/ Remove(p)
  BY <1>1, <1>5 DEF Put, PutFound, PutVal, PutKey, PutExpand, PutLink, Remove, RemoveKey,
                    RemoveMiss, Applies
<1>6. CASE Status(p)
  BY <1>1, <1>6 DEF Status, StatusLock, Count, StatusUnlock, Answers
<1>7. CASE Resize(p)
  BY <1>1, <1>7 DEF Resize, ResizeOld, ResizeBusy, ResizeStart, MarkBucket, MarkedBefore,
                    CopySlot, NextBucket, Swap, Publish, ResizeUnlock
<1> QED
  BY <1>2, <1>3, <1>4, <1>5, <1>6, <1>7 DEF Work

(* The map watches its calls as the table does.                             *)
LEMMA KVWatch == Watch => KV!Watch
  BY DEF Watch, KV!Watch, KV!Idle, Idle, KV!None

(* A step on the way is none of the map.                                    *)
LEMMA WayStutters ==
  ASSUME IndInv, IndInv', MapInv, NEW p \in Threads, Work(p), Watch, OnTheWay(p), ~Applies(p)
  PROVE  UNCHANGED <<AbsMap, call, StageMap, ResMap, seen>>
<1>1. AbsMap' = AbsMap /\ call' = call
  BY AbsStep DEF MapInv, Applies, OnTheWay
<1>2. Stage(p)' = Stage(p)
  BY DEF OnTheWay, Stage
<1>3. StageMap' = StageMap
  <2>1. StageMap' = [StageMap EXCEPT ![p] = Stage(p)]
    BY <1>2, StageSteps
  <2> QED
    BY <2>1 DEF StageMap
<1>4. ResMap' = ResMap
  <2>1. Stage(p) # "open" => ret'[p] = ret[p]
    BY DEF OnTheWay, Stage
  <2>2. ResMap' = [ResMap EXCEPT ![p] = IF Stage(p) = "open" THEN None ELSE ret[p]]
    BY <1>2, <2>1, StageSteps
  <2> QED
    BY <2>2 DEF ResMap
<1>5. seen' = seen
  <2>1. \A q \in Threads : call[q] # Idle => AbsMap[call[q].key] \in seen[q]
    BY DEF MapInv, AnswersInv, SeenNow
  <2>2. \A q \in Threads : call[q] = Idle => seen[q] = {}
    BY DEF MapInv, AnswersInv, SeenNow
  <2>3. seen \in [Threads -> SUBSET (Vals \cup {None})]
    BY DEF IndInv, TypeOK
  <2>4. seen' = [q \in Threads |-> IF call[q] = Idle THEN {}
                                   ELSE seen[q] \cup {AbsMap[call[q].key]}]
    BY <1>1 DEF Watch
  <2>5. \A q \in Threads : seen'[q] = seen[q]
    BY <2>1, <2>2, <2>4
  <2> QED
    BY <2>3, <2>4, <2>5
<1> QED
  BY <1>1, <1>3, <1>4, <1>5

(* A call opens.                                                            *)
LEMMA InvokeImplements ==
  ASSUME IndInv, IndInv', MapInv, NEW p \in Threads, Invoke(p)
  PROVE  KV!KVInvoke(p)
<1>1. PICK c \in Calls : call' = [call EXCEPT ![p] = c]
  BY DEF Invoke
<1>2. AbsMap' = AbsMap
  BY AbsStep DEF MapInv, Invoke, PutKey, PutLink, RemoveKey
<1>3. pc[p] = "idle" /\ ret[p] = None /\ pc'[p] \in {"get", "exists"} /\ ret'[p] = None
  BY DEF Invoke, Goto, MapInv, ContentsInv, Phases, IndInv, TypeOK, ThreadsOK
<1>4. Stage(p) = "idle" /\ Stage(p)' = "open"
  BY <1>3 DEF Stage
<1>5. StageMap[p] = "idle" /\ StageMap' = [StageMap EXCEPT ![p] = "open"]
  BY <1>4, StageSteps DEF StageMap
<1>6. ResMap' = ResMap
  <2>1. ResMap' = [ResMap EXCEPT ![p] = None] /\ ResMap[p] = None
    BY <1>3, <1>4, StageSteps DEF ResMap
  <2> QED
    BY <2>1 DEF ResMap
<1>7. c \in KV!Calls
  BY DEF Calls, KV!Calls, KV!None
<1> QED
  BY <1>1, <1>2, <1>5, <1>6, <1>7 DEF KV!KVInvoke, StageMap, ResMap

(* A call returns.                                                          *)
LEMMA ReturnImplements ==
  ASSUME IndInv, IndInv', MapInv, NEW p \in Threads, Return(p)
  PROVE  KV!KVReturn(p)
<1>1. AbsMap' = AbsMap
  BY AbsStep DEF MapInv, Work, Return, PutKey, PutLink, RemoveKey
<1>2. Stage(p) = "done" /\ Stage(p)' = "idle" /\ ret'[p] = None
  BY DEF Return, Goto, Stage, IndInv, TypeOK, ThreadsOK
<1>3. /\ StageMap[p] = "done" /\ StageMap' = [StageMap EXCEPT ![p] = "idle"]
      /\ ResMap' = [ResMap EXCEPT ![p] = None]
  BY <1>2, StageSteps DEF StageMap, Work
<1>4. call' = [call EXCEPT ![p] = KV!Idle]
  BY DEF Return, Idle, KV!Idle, KV!None
<1> QED
  BY <1>1, <1>3, <1>4 DEF KV!KVReturn, StageMap, ResMap, KV!None

(* A put or remove takes effect.                                            *)
LEMMA ApplyImplements ==
  ASSUME IndInv, IndInv', MapInv, NEW p \in Threads, Applies(p)
  PROVE  KV!KVApply(p)
<1>1. Work(p)
  BY DEF Applies, Work, Put, Remove
<1>2. /\ pc[p] \in {"putkey", "putlink", "locked"} /\ pc'[p] = "release" /\ ret[p] = None
      /\ call' = call
      /\ PutKey(p) \/ PutLink(p) => call[p].op = "put" /\ call[p].val # None
                                    /\ ret'[p] = call[p].val
      /\ RemoveKey(p) => call[p].op = "remove"
  BY DEF Applies, PutKey, PutLink, RemoveKey, Goto, MapInv, ContentsInv, Phases,
         IndInv, TypeOK, ThreadsOK
<1>3. /\ PutKey(p) \/ PutLink(p) =>
           /\ AbsMap[call[p].key] = None
           /\ AbsMap' = [AbsMap EXCEPT ![call[p].key] = call[p].val]
      /\ RemoveKey(p) =>
           /\ AbsMap[call[p].key] # None
           /\ AbsMap' = [AbsMap EXCEPT ![call[p].key] = None]
           /\ ret'[p] = AbsMap[call[p].key]
  BY <1>1, AbsStep DEF MapInv, IndInv, TypeOK, ThreadsOK
<1>4. call[p].op \in {"put", "remove"} /\ ret'[p] # None
  BY <1>2, <1>3 DEF Applies
<1>5. Stage(p) = "open" /\ Stage(p)' = "applied"
  BY <1>2, <1>4 DEF Stage
<1>6. /\ StageMap[p] = "open" /\ StageMap' = [StageMap EXCEPT ![p] = "applied"]
      /\ ResMap' = [ResMap EXCEPT ![p] = ret'[p]]
  BY <1>1, <1>5, StageSteps DEF StageMap
<1>7. CASE PutKey(p) \/ PutLink(p)
  BY <1>2, <1>3, <1>6, <1>7 DEF KV!KVApply, StageMap, ResMap, KV!None
<1>8. CASE RemoveKey(p)
  BY <1>2, <1>3, <1>6, <1>8 DEF KV!KVApply, StageMap, ResMap, KV!None
<1> QED
  BY <1>7, <1>8 DEF Applies

(* The answer that a call gives is justified by what it has seen.           *)
LEMMA AnswerRight ==
  ASSUME IndInv, MapInv, NEW p \in Threads, Answers(p), Stage(p) = "open"
  PROVE  KV!Justified(p, ret'[p])
<1> USE DEF KV!Justified, KV!None
<1>1. /\ pc[p] \in {"exists", "existsnext"} => call[p].op \in {"put", "remove"} /\ ret[p] = None
      /\ pc[p] \in {"getcheck", "getnext"} => call[p].op = "get"
      /\ pc[p] = "getnext" => ret[p] = None
      /\ pc[p] = "release" => call[p].op \in {"put", "remove"}
      /\ pc[p] = "unstatus" => call[p].op = "put" /\ ret[p] # None
      /\ pc[p] # "idle" => call[p] # Idle
      /\ ret \in [Threads -> Vals \cup {None}]
  BY DEF MapInv, ContentsInv, Phases, Sizing, IndInv, TypeOK, ThreadsOK
<1>2. CASE ExistsKey(p) /\ KeyAt(p) = call[p].key /\ call[p].op = "put"
  <2>1. ix[p] \in SlotsWith(Chain(p), call[p].key)
    BY <1>2, ScanSlot DEF ExistsKey, Scanning, SlotsWith, Chain, KeyAt
  <2>2. seen[p] \cap Vals # {}
    BY <1>1, <1>2, <2>1, Found DEF ExistsKey, MapInv
  <2> QED
    BY <1>1, <1>2, <2>2 DEF ExistsKey
<1>3. ASSUME pc[p] \in Passing, ~(ix[p] < Len(Chain(p))) PROVE None \in seen[p]
  <2>1. /\ tab[p] \in Tables /\ Bin(p) \in Bins /\ ix[p] \in 1..Len(key[tab[p]][Bin(p)])
    BY <1>3, ScanSlot DEF Passing, Scanning
  <2>2. ASSUME NEW i \in SlotsWith(Chain(p), call[p].key) PROVE ~(ix[p] < i)
    <3>1. Len(Chain(p)) \in Nat
      BY <2>1, LenType, Thread DEF Chain, IndInv
    <3> QED
      BY <1>3, <2>1, <3>1 DEF SlotsWith, Chain
  <2> QED
    BY <1>3, <2>2 DEF MapInv, AnswersInv, NotMissed, Passing
<1>4. CASE ExistsNext(p) /\ ~(ix[p] < Len(Chain(p))) /\ call[p].op = "remove"
  BY <1>1, <1>3, <1>4 DEF ExistsNext, Passing
<1>5. CASE GetNext(p) /\ ~(ix[p] < Len(Chain(p)))
  BY <1>1, <1>3, <1>5 DEF GetNext, Passing
<1>6. CASE GetCheck(p)
  <2>1. pc[p] = "getcheck" /\ ret'[p] = IF ValAt(p) = ret[p] THEN ret[p] ELSE None
    BY <1>1, <1>6 DEF GetCheck
  <2> QED
    BY <1>1, <2>1 DEF MapInv, AnswersInv, ValueOfKey
<1>7. CASE Release(p) /\ ~resize[p]
  <2>1. pc[p] = "release" /\ ret'[p] = ret[p]
    BY <1>7 DEF Release
  <2>2. ret[p] = None
    BY <1>1, <2>1 DEF Stage
  <2> QED
    BY <1>1, <2>1, <2>2 DEF MapInv, AnswersInv, Refused
<1>8. CASE StatusUnlock(p) /\ nest[p] = 1
  BY <1>1, <1>8 DEF StatusUnlock, Stage
<1> QED
  BY <1>2, <1>4, <1>5, <1>6, <1>7, <1>8 DEF Answers

(* A call is done.                                                          *)
LEMMA AnswerImplements ==
  ASSUME IndInv, IndInv', MapInv, NEW p \in Threads, Answers(p)
  PROVE  KV!KVAnswer(p)
<1>1. /\ Work(p) /\ call' = call /\ ~Applies(p)
      /\ pc[p] \notin {"idle", "done"}
  BY DEF Answers, Work, Get, Exists, Status, ExistsKey, ExistsNext, GetCheck, GetNext, Release,
         StatusUnlock, Applies, PutKey, PutLink, RemoveKey
<1>2. pc'[p] = "done" /\ (Stage(p) = "applied" => ret'[p] = ret[p])
  <2> USE DEF Goto, IndInv, TypeOK, ThreadsOK
  <2>1. CASE ExistsKey(p) \/ ExistsNext(p) \/ GetNext(p)
    BY <2>1 DEF Answers, ExistsKey, ExistsNext, GetNext, Follow, GetCheck, Release, StatusUnlock
  <2>2. CASE GetCheck(p)
    <3>1. call[p].op = "get"
      BY <2>2 DEF GetCheck, MapInv, ContentsInv, Phases
    <3> QED
      BY <2>2, <3>1 DEF GetCheck, Stage
  <2>3. CASE (Release(p) /\ ~resize[p]) \/ (StatusUnlock(p) /\ nest[p] = 1)
    BY <2>3 DEF Release, StatusUnlock
  <2> QED
    BY <2>1, <2>2, <2>3 DEF Answers
<1>3. AbsMap' = AbsMap
  BY <1>1, AbsStep DEF MapInv, Applies
<1>4. Stage(p)' = "done" /\ Stage(p) \in {"open", "applied"}
  BY <1>1, <1>2 DEF Stage
<1>5. /\ StageMap[p] = Stage(p) /\ StageMap' = [StageMap EXCEPT ![p] = "done"]
      /\ ResMap' = [ResMap EXCEPT ![p] = ret'[p]]
  BY <1>1, <1>4, StageSteps DEF StageMap
<1>6. CASE Stage(p) = "applied"
  <2>1. ResMap[p] = ret[p] /\ ret'[p] = ret[p]
    BY <1>2, <1>6 DEF ResMap
  <2>2. ResMap' = ResMap
    BY <1>5, <2>1 DEF ResMap
  <2> QED
    BY <1>1, <1>3, <1>5, <1>6, <2>2 DEF KV!KVAnswer, StageMap, ResMap
<1>7. CASE Stage(p) = "open"
  <2>1. ret'[p] \in Vals \cup {KV!None}
    BY DEF IndInv, TypeOK, ThreadsOK, KV!None
  <2>2. KV!Justified(p, ret'[p])
    BY <1>7, AnswerRight
  <2> QED
    BY <1>1, <1>3, <1>5, <1>7, <2>1, <2>2 DEF KV!KVAnswer, StageMap, ResMap
<1> QED
  BY <1>4, <1>6, <1>7

(* CLHT-LB-RESIZE is one atomic map: every put and remove that succeeds     *)
(* takes effect at one instant of its call, and gets and refusals are right *)
(* at some instant of theirs, whatever resizes run.                         *)
THEOREM IsAtomicMap == Spec => Linearizable
<1>1. Init => KV!KVInit
  <2> SUFFICES ASSUME Init PROVE KV!KVInit
    OBVIOUS
  <2>1. AbsMap = [k \in Keys |-> KV!None]
    <3>1. ASSUME NEW k \in Keys PROVE Lookup(ht, k) = None
      <4>1. /\ IndInv /\ MapInv /\ 1 \in Tables /\ ht = 1
        BY InitInv, InitMap, BoundsAssumption DEF Init, Tables
      <4>2. clht_hash(ht, k) \in Bins
        BY <4>1, HashInRange, KeysAssumption DEF IndInv, TypeOK
      <4>3. key[ht][clht_hash(ht, k)] = EmptyChain
        BY <4>1, <4>2 DEF Init
      <4>4. SlotsWith(EmptyChain, k) = {}
        BY EntriesAssumption, KeysAssumption DEF SlotsWith, EmptyChain
      <4> QED
        BY <4>3, <4>4 DEF Lookup
    <3> QED
      BY <3>1 DEF AbsMap, KV!None
  <2>2. ASSUME NEW p \in Threads PROVE Stage(p) = "idle" /\ ret[p] = None
    <3>1. pc[p] = "idle" /\ ret[p] = None
      BY DEF Init
    <3> QED
      BY <3>1 DEF Stage
  <2>3. /\ StageMap = [p \in Threads |-> "idle"]
        /\ ResMap = [p \in Threads |-> KV!None]
    BY <2>2 DEF StageMap, ResMap, KV!None
  <2>4. /\ call = [p \in Threads |-> KV!Idle]
        /\ seen = [p \in Threads |-> {}]
    BY DEF Init, KV!Idle, KV!None, Idle
  <2> QED
    BY <2>1, <2>3, <2>4 DEF KV!KVInit, StageMap, ResMap
<1>2. ASSUME IndInv, IndInv', MapInv, [Next]_vars PROVE [KV!KVNext]_KV!kvVars
  <2>1. CASE UNCHANGED vars
    <3>1. AbsMap' = AbsMap /\ UNCHANGED <<call, seen>>
      BY <2>1 DEF vars, shared, AbsMap, Lookup, clht_hash
    <3>2. UNCHANGED <<StageMap, ResMap>>
      BY <2>1 DEF vars, StageMap, ResMap, Stage
    <3> QED
      BY <3>1, <3>2 DEF KV!kvVars, StageMap, ResMap
  <2>2. CASE Next
    <3>1. PICK p \in Threads : Invoke(p) \/ Work(p)
      BY <2>2 DEF Next
    <3>2. Watch /\ KV!Watch
      BY <2>2, KVWatch DEF Next
    <3>3. CASE Invoke(p) \/ Return(p) \/ Applies(p) \/ Answers(p)
      <4>1. KV!KVInvoke(p) \/ KV!KVApply(p) \/ KV!KVAnswer(p) \/ KV!KVReturn(p)
        BY <1>2, <3>3, InvokeImplements, ReturnImplements, ApplyImplements, AnswerImplements
      <4> QED
        BY <3>2, <4>1 DEF KV!KVNext
    <3>4. CASE Work(p) /\ ~Return(p) /\ ~Applies(p) /\ ~Answers(p)
      <4>1. UNCHANGED <<AbsMap, call, StageMap, ResMap, seen>>
        BY <1>2, <3>2, <3>4, WayKinds, WayStutters DEF MapInv
      <4> QED
        BY <4>1 DEF KV!kvVars, StageMap, ResMap
    <3> QED
      BY <3>1, <3>3, <3>4
  <2> QED
    BY <1>2, <2>1, <2>2
<1> QED
  BY <1>1, <1>2, Invariance, MapInvariance, PTL DEF Spec, Linearizable, KV!KVSpec
=============================================================================
