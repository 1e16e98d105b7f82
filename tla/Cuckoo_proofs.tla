--------------------------- MODULE Cuckoo_proofs ---------------------------
(* Proofs about Cuckoo.                                                     *)
EXTENDS Cuckoo, FiniteSetTheorems, SequenceTheorems, TLAPS

(* The bits of buckets and locks.                                           *)
LEMMA HomesType ==
  ASSUME NEW h, NEW k
  PROVE  /\ Homes(h, k)[1] = index_hash(h, k) /\ Homes(h, k)[2] = alt_index(h, k, index_hash(h, k))
         /\ HomeSet(h, k) = {Homes(h, k)[1], Homes(h, k)[2]}
         /\ Homes(h, k)[1] \in Numbers(h) /\ Homes(h, k)[2] \in Numbers(h)
         /\ HomeSet(h, k) \subseteq Numbers(h)
BY DEF Homes, HomeSet, index_hash, alt_index, Numbers

LEMMA AltType ==
  ASSUME NEW h, NEW k, NEW i
  PROVE  alt_index(h, k, i) \in Numbers(h)
BY DEF alt_index, Numbers

(* The other home of the other home is the bucket itself.                   *)
LEMMA AltBack ==
  ASSUME NEW h, NEW k, NEW i \in Numbers(h)
  PROVE  alt_index(h, k, alt_index(h, k, i)) = i
BY DEF alt_index, Numbers, Xor

LEMMA AltHome ==
  ASSUME NEW h, NEW k, NEW i \in HomeSet(h, k)
  PROVE  alt_index(h, k, i) \in HomeSet(h, k)
BY HomesType, AltBack

(* In a table twice as large a home is where it was or has the new bit.     *)
LEMMA BitsGrow ==
  ASSUME NEW h \in Nat
  PROVE  Bits(h + 1) = Bits(h) \cup {h} /\ h \notin Bits(h)
BY DEF Bits

LEMMA HomesGrow ==
  ASSUME NEW h \in Nat, NEW k, NEW n \in {1, 2}
  PROVE  Homes(h + 1, k)[n] \in {Homes(h, k)[n], Homes(h, k)[n] \cup {h}}
<1>1. Bits(h + 1) = Bits(h) \cup {h} /\ h \notin Bits(h)
  BY BitsGrow
<1>2. CASE n = 1
  <2>1. Homes(h + 1, k)[1] = Hash[k] \cap Bits(h + 1) /\ Homes(h, k)[1] = Hash[k] \cap Bits(h)
    BY HomesType DEF index_hash
  <2>2. Hash[k] \cap (Bits(h) \cup {h}) \in {Hash[k] \cap Bits(h), (Hash[k] \cap Bits(h)) \cup {h}}
    OBVIOUS
  <2> QED
    BY <1>1, <1>2, <2>1, <2>2
<1>3. CASE n = 2
  <2> DEFINE new == alt_index(h + 1, k, index_hash(h + 1, k))
             old == alt_index(h, k, index_hash(h, k))
  <2>1. /\ index_hash(h + 1, k) \cap Bits(h) = index_hash(h, k)
        /\ index_hash(h, k) \subseteq Bits(h)
    BY <1>1 DEF index_hash
  <2>2. new \cap Bits(h) = old
    BY <1>1, <2>1 DEF alt_index, Xor
  <2>3. new \subseteq Bits(h) \cup {h} /\ old \subseteq Bits(h)
    BY <1>1 DEF alt_index
  <2>4. Homes(h + 1, k)[2] = new /\ Homes(h, k)[2] = old
    BY HomesType
  <2> HIDE DEF new, old
  <2>5. new = old \/ new = old \cup {h}
    <3>1. CASE h \in new
      BY <2>2, <2>3, <3>1
    <3>2. CASE h \notin new
      BY <2>2, <2>3, <3>2
    <3> QED
      BY <3>1, <3>2
  <2> QED
    BY <1>3, <2>4, <2>5
<1> QED
  BY <1>2, <1>3

LEMMA NumbersGrow ==
  ASSUME NEW h \in Nat
  PROVE  /\ Numbers(h) \subseteq Numbers(h + 1)
         /\ \A i \in Numbers(h) : i \cup {h} \in Numbers(h + 1) \ Numbers(h) /\ (i \cup {h}) \ {h} = i
         /\ \A i \in Numbers(h + 1) : h \notin i => i \in Numbers(h)
         /\ \A i \in Numbers(h + 1) : h \in i => i \ {h} \in Numbers(h) /\ (i \ {h}) \cup {h} = i
BY BitsGrow DEF Numbers

LEMMA LockTypes ==
  ASSUME NEW i
  PROVE  lock_ind(i) \in Locks
BY DEF lock_ind, Locks, Numbers

(* A bucket of the old half has a lock of the old table; the lock of the    *)
(* bucket it is split into is the same, or one that is not.                 *)
LEMMA LocksGrow ==
  ASSUME NEW h \in Nat, NEW i \in Numbers(h)
  PROVE  /\ lock_ind(i) \subseteq Bits(h)
         /\ lock_ind(i \cup {h}) = lock_ind(i) \/ ~(lock_ind(i \cup {h}) \subseteq Bits(h))
BY BitsGrow DEF lock_ind, Numbers
-----------------------------------------------------------------------------
LEMMA NotEmpty ==
  ASSUME NEW S, NEW s \in Seq(S), s # << >>
  PROVE  Len(s) \in Nat \ {0} /\ Head(s) = s[1] /\ s[1] \in S /\ s[Len(s)] \in S
OBVIOUS

LEMMA LongTail ==
  ASSUME NEW S, NEW s \in Seq(S), Len(s) > 1
  PROVE  /\ Tail(s) \in Seq(S) /\ Tail(s) # << >> /\ Len(Tail(s)) = Len(s) - 1
         /\ \A n \in 1..Len(Tail(s)) : n + 1 \in 1..Len(s) /\ Tail(s)[n] = s[n + 1]
<1>1. Len(s) \in Nat /\ s # << >>
  OBVIOUS
<1>2. /\ Tail(s) \in Seq(S) /\ Len(Tail(s)) = Len(s) - 1
      /\ \A n \in 1..Len(Tail(s)) : Tail(s)[n] = s[n + 1]
  BY <1>1, HeadTailProperties
<1>3. \A m \in Nat : m > 1 => m - 1 # 0 /\ \A n \in 1..(m - 1) : n + 1 \in 1..m
  OBVIOUS
<1>4. Len(Tail(s)) # 0 /\ \A n \in 1..Len(Tail(s)) : n + 1 \in 1..Len(s)
  BY <1>1, <1>2, <1>3
<1>5. Tail(s) # << >>
  BY <1>2, <1>4, EmptySeq
<1> QED
  BY <1>2, <1>4, <1>5

LEMMA Appended ==
  ASSUME NEW S, NEW s \in Seq(S), NEW e \in S
  PROVE  /\ Append(s, e) \in Seq(S) /\ Append(s, e) # << >> /\ Len(Append(s, e)) = Len(s) + 1
         /\ \A n \in 1..(Len(s) + 1) : Append(s, e)[n] = IF n = Len(s) + 1 THEN e ELSE s[n]
<1>1. \A n \in 1..(Len(s) + 1) : n = Len(s) + 1 \/ n \in 1..Len(s)
  OBVIOUS
<1> QED
  BY <1>1, AppendProperties

(* What a step leaves alone.                                                *)
LEMMA Kinds ==
  ASSUME IndInv, NEW p \in Threads, Invoke(p) \/ Work(p)
  PROVE  \/ Invoke(p) \/ Snapshot(p) \/ TakeLock(p) \/ find(p) \/ erase(p) \/ cuckoo_insert(p)
         \/ slot_search(p) \/ cuckoopath_search(p) \/ PrepareMove(p) \/ cuckoopath_move(p)
         \/ AddToFreed(p) \/ Throws(p) \/ BeginDouble(p) \/ Double(p) \/ move_buckets(p) \/ Return(p)
<1>1. ~Rehash(p)
  BY DEF IndInv, Calling, Rehash
<1> QED
  BY <1>1 DEF Work, insert, cuckoo_fast_double

LEMMA OthersStay ==
  ASSUME IndInv, NEW p \in Threads, Invoke(p) \/ Work(p), NEW r \in Threads, r # p
  PROVE  /\ pc'[r] = pc[r] /\ call'[r] = call[r]
         /\ hp'[r] = hp[r] /\ want'[r] = want[r] /\ goal'[r] = goal[r]
         /\ q'[r] = q[r] /\ tried'[r] = tried[r] /\ path'[r] = path[r] /\ ret'[r] = ret[r]
<1>0. VarsOK
  BY DEF IndInv
<1>1. CASE Invoke(p) \/ Snapshot(p) \/ find(p) \/ erase(p) \/ Return(p) \/ Throws(p)
  BY <1>0, <1>1 DEF VarsOK, Invoke, Snapshot, find, erase, Return, Throws, Goto, LockThen, table, locals
<1>2. CASE TakeLock(p)
  BY <1>0, <1>2 DEF VarsOK, TakeLock, Goto
<1>3. CASE cuckoo_insert(p)
  BY <1>0, <1>3 DEF VarsOK, cuckoo_insert, Goto, Cuckoo, AddTo
<1>4. CASE slot_search(p)
  BY <1>0, <1>4 DEF VarsOK, slot_search, Goto, StartOver, table
<1>5. CASE cuckoopath_search(p)
  BY <1>0, <1>5 DEF VarsOK, cuckoopath_search, Goto, StartOver, table
<1>6. CASE PrepareMove(p)
  BY <1>0, <1>6 DEF VarsOK, PrepareMove, Goto, LockThen, table
<1>7. CASE cuckoopath_move(p)
  BY <1>0, <1>7 DEF VarsOK, cuckoopath_move, Goto, Cuckoo
<1>8. CASE AddToFreed(p)
  BY <1>0, <1>8 DEF VarsOK, AddToFreed, Goto, Cuckoo, AddTo
<1>9. CASE BeginDouble(p)
  BY <1>0, <1>9 DEF VarsOK, BeginDouble, Goto, StartOver, LockThen, table
<1>10. CASE Double(p) \/ move_buckets(p)
  BY <1>0, <1>10 DEF VarsOK, Double, move_buckets, Goto, StartOver, locals
<1> QED
  BY <1>1, <1>2, <1>3, <1>4, <1>5, <1>6, <1>7, <1>8, <1>9, <1>10, Kinds

(* Locks are taken when they are free and released by their owner.          *)
LEMMA LocksStay ==
  ASSUME IndInv, NEW p \in Threads, Invoke(p) \/ Work(p)
  PROVE  /\ lock' \in [Locks -> Threads \cup {None}]
         /\ \A l \in Locks : \A r \in Threads \ {p} : lock'[l] = r <=> lock[l] = r
<1>0. VarsOK /\ None \notin Threads
  BY ThreadsAssumption DEF IndInv
<1>1. CASE \E ls : ReleaseSome(p, ls)
  BY <1>0, <1>1 DEF VarsOK, ReleaseSome
<1>2. CASE UNCHANGED lock
  BY <1>0, <1>2 DEF VarsOK
<1>3. CASE \E l \in Locks : lock[l] = None /\ lock' = [lock EXCEPT ![l] = p]
  BY <1>0, <1>3 DEF VarsOK
<1>4. CASE TakeLock(p)
  <2>1. want[p] \subseteq Locks
    BY <1>0 DEF VarsOK
  <2> QED
    BY <1>2, <1>3, <1>4, <2>1 DEF TakeLock
<1>5. CASE find(p) \/ erase(p) \/ cuckoo_insert(p) \/ cuckoopath_move(p) \/ AddToFreed(p) \/ move_buckets(p)
  BY <1>1, <1>5 DEF find, erase, cuckoo_insert, cuckoopath_move, AddToFreed, move_buckets, Release, Cuckoo
<1>6. CASE \/ Invoke(p) \/ Snapshot(p) \/ slot_search(p) \/ cuckoopath_search(p) \/ PrepareMove(p)
           \/ Throws(p) \/ BeginDouble(p) \/ Double(p) \/ Return(p)
  BY <1>2, <1>6 DEF Invoke, Snapshot, slot_search, cuckoopath_search, PrepareMove, Throws, BeginDouble,
     Double, Return, table
<1> QED
  BY <1>4, <1>5, <1>6, Kinds

LEMMA HeldStays ==
  ASSUME IndInv, NEW p \in Threads, Invoke(p) \/ Work(p), NEW r \in Threads, r # p
  PROVE  Held(r)' = Held(r)
BY LocksStay DEF Held
-----------------------------------------------------------------------------
(* What a step does to the table.                                           *)
LEMMA CallKey ==
  ASSUME IndInv, NEW p \in Threads, call[p].op \in {"put", "get", "remove"}
  PROVE  Key(p) \in Keys /\ call[p] \in MapCalls
BY DEF IndInv, VarsOK, Calls, MapCalls, Idle, Key

LEMMA Table ==
  ASSUME IndInv
  PROVE  /\ hashpower_ \in Nat /\ hashpower_ \in 1..MaxHashpower
         /\ bucket \in [Numbers(hashpower_) -> [Slots -> Entry \cup {Empty}]]
         /\ DOMAIN bucket = Numbers(hashpower_)
         /\ \A e \in Entry : e # Empty /\ e.key \in Keys /\ e.val \in Vals
         /\ None \notin Keys /\ None \notin Threads /\ Empty.key = None
         /\ MaxHashpower \in Nat
<1>1. MaxHashpower \in Nat /\ None \notin Keys /\ None \notin Threads
  BY SizesAssumption, KeysAssumption, ThreadsAssumption DEF None
<1> QED
  BY <1>1 DEF IndInv, TableOK, Entry, Empty

(* Who works on a key under lock has the locks of its homes.                *)
HasHomes(p) == hp[p] = hashpower_ /\ LocksOf(HomeSet(hashpower_, Key(p))) \subseteq Held(p)

LEMMA WithHomes ==
  ASSUME IndInv, NEW p \in Threads, pc[p] \in {"get", "put", "remove", "add"}
  PROVE  /\ Held(p) = LocksOf(HomeSet(hashpower_, Key(p)))
         /\ HasHomes(p) /\ call[p].op \in {"get", "put", "remove"} /\ Key(p) \in Keys
         /\ pc[p] \in {"put", "add"} <=> call[p].op = "put"
         /\ pc[p] # "add" => pc[p] = call[p].op
<1>1. Locking(p) /\ Calling(p) /\ Searching(p)
  BY DEF IndInv
<1>2. Held(p) = LocksOf(HomeSet(hp[p], Key(p)))
  BY <1>1 DEF Locking, Searching, WithLocks, Needs, MoveLocks, Doing
<1>3. LocksOf(HomeSet(hp[p], Key(p))) # {}
  BY HomesType DEF LocksOf
<1>4. hp[p] = hashpower_
  BY <1>1, <1>2, <1>3 DEF Locking
<1>5. call[p].op \in {"get", "put", "remove"}
  BY <1>1 DEF Calling, Doing
<1>6. pc[p] \in {"put", "add"} <=> call[p].op = "put"
  BY <1>1 DEF Calling, Doing
<1>7. pc[p] # "add" => pc[p] = call[p].op
  BY <1>1 DEF Calling, Doing
<1> QED
  BY <1>2, <1>4, <1>5, <1>6, <1>7, CallKey DEF HasHomes

(* The places of the key of a call that has the locks of its homes.         *)
LEMMA FoundPlaces ==
  ASSUME IndInv, NEW p \in Threads, pc[p] \in {"get", "put", "remove", "add"}
  PROVE  /\ \A pl : pl \in Found(p) <=> /\ pl \in HomeSet(hashpower_, Key(p)) \X Slots
                                       /\ At(pl).key = Key(p)
         /\ \A pl \in Found(p) : At(pl) \in Entry
<1>1. hp[p] = hashpower_ /\ Key(p) \in Keys
  BY WithHomes DEF HasHomes
<1>2. ASSUME NEW pl PROVE pl \in Found(p) <=> /\ pl \in HomeSet(hashpower_, Key(p)) \X Slots
                                             /\ At(pl).key = Key(p)
  BY <1>1, HomesType DEF Found, Places, At, B
<1>3. ASSUME NEW pl \in Found(p) PROVE At(pl) \in Entry
  <2>1. pl[1] \in Numbers(hashpower_) /\ pl[2] \in Slots /\ At(pl).key = Key(p)
    BY <1>2, HomesType
  <2>2. At(pl) \in Entry \cup {Empty}
    BY <2>1, Table DEF At
  <2> QED
    BY <1>1, <2>1, <2>2, Table
<1> QED
  BY <1>2, <1>3

Adding(p, pl) ==
  /\ HasHomes(p) /\ call[p].op = "put" /\ Key(p) \in Keys /\ call[p].val \in Vals
  /\ pl \in HomeSet(hashpower_, Key(p)) \X Slots /\ Found(p) = {} /\ At(pl) = Empty
  /\ bucket' = [bucket EXCEPT ![pl[1]][pl[2]] = [key |-> Key(p), val |-> call[p].val]]
  /\ ret' = [ret EXCEPT ![p] = call[p].val] /\ pc[p] \in {"put", "add"} /\ pc'[p] = "done"

Removes(p, pl) ==
  /\ HasHomes(p) /\ pc[p] = "remove" /\ Key(p) \in Keys /\ pl \in Found(p)
  /\ bucket' = [bucket EXCEPT ![pl[1]][pl[2]] = Empty]
  /\ ret' = [ret EXCEPT ![p] = At(pl).val] /\ pc'[p] = "done"

Shifts(p, pl, to) ==
  /\ pc[p] = "move" /\ hp[p] = hashpower_ /\ {lock_ind(pl[1]), lock_ind(to[1])} \subseteq Held(p)
  /\ pl \in Numbers(hashpower_) \X Slots /\ to \in Numbers(hashpower_) \X Slots
  /\ At(pl) \in Entry /\ At(to) = Empty /\ to[1] = alt_index(hashpower_, At(pl).key, pl[1])
  /\ bucket' = [bucket EXCEPT ![pl[1]][pl[2]] = Empty, ![to[1]][to[2]] = At(pl)]
  /\ ret' = ret

LEMMA AddsTo ==
  ASSUME IndInv, NEW p \in Threads, NEW pl, pc[p] \in {"put", "add"}, AddTo(p, pl), Found(p) = {},
         pl \in HomeSet(hashpower_, Key(p)) \X Slots, At(pl) = Empty, pc'[p] = "done"
  PROVE  Adding(p, pl)
<1>1. HasHomes(p) /\ call[p].op = "put" /\ Key(p) \in Keys
  BY WithHomes
<1>2. call[p].val \in Vals
  BY <1>1 DEF IndInv, Calling
<1> QED
  BY <1>1, <1>2 DEF Adding, AddTo, Put

LEMMA InsertEffect ==
  ASSUME IndInv, NEW p \in Threads, cuckoo_insert(p)
  PROVE  \/ UNCHANGED <<bucket, ret>> /\ (pc'[p] = "done" => Found(p) # {})
         \/ \E pl : Adding(p, pl)
<1>1. pc[p] = "put" /\ hp[p] = hashpower_
  BY WithHomes DEF cuckoo_insert, HasHomes
<1>2. CASE Found(p) # {} \/ Free(p) = {}
  BY <1>2 DEF cuckoo_insert, Cuckoo, Goto, IndInv, VarsOK
<1>3. CASE Found(p) = {} /\ Free(p) # {}
  <2>1. Found(p) = {} /\ pc'[p] = "done"
    BY <1>3 DEF cuckoo_insert, Goto, IndInv, VarsOK
  <2>2. PICK pl \in Free(p) : AddTo(p, pl)
    BY <1>3 DEF cuckoo_insert
  <2>3. At(pl) = Empty /\ pl \in HomeSet(hashpower_, Key(p)) \X Slots
    BY <1>1, HomesType DEF Free, B
  <2> QED
    BY <1>1, <2>1, <2>2, <2>3, AddsTo
<1> QED
  BY <1>2, <1>3

LEMMA AddEffect ==
  ASSUME IndInv, NEW p \in Threads, AddToFreed(p)
  PROVE  \/ UNCHANGED <<bucket, ret>> /\ (pc'[p] = "done" => Found(p) # {})
         \/ \E pl : Adding(p, pl)
<1>1. pc[p] = "add" /\ hp[p] = hashpower_
  BY WithHomes DEF AddToFreed, HasHomes
<1> DEFINE pl == <<path[p][1].bucket, path[p][1].slot>>
<1>2. CASE Found(p) # {} \/ At(pl) # Empty
  BY <1>2 DEF AddToFreed, Cuckoo, Goto, IndInv, VarsOK
<1>3. CASE Found(p) = {} /\ At(pl) = Empty
  <2>1. /\ Found(p) = {} /\ pc'[p] = "done" /\ AddTo(p, pl) /\ At(pl) = Empty
    BY <1>3 DEF AddToFreed, Goto, IndInv, VarsOK
  <2>2. Len(path[p]) = 1 /\ path[p] \in Seq(Records) /\ Path(p)
    BY <1>1 DEF IndInv, VarsOK, Searching, Doing
  <2>3. path[p][1] \in Records /\ path[p][1].bucket \in HomeSet(hp[p], Key(p))
    BY <2>2 DEF Path
  <2>4. pl \in HomeSet(hashpower_, Key(p)) \X Slots
    BY <1>1, <2>3 DEF Records
  <2> HIDE DEF pl
  <2> QED
    BY <1>1, <2>1, <2>4, AddsTo
<1> QED
  BY <1>2, <1>3

LEMMA EraseEffect ==
  ASSUME IndInv, NEW p \in Threads, erase(p)
  PROVE  \/ UNCHANGED <<bucket, ret>> /\ Found(p) = {}
         \/ \E pl : Removes(p, pl)
<1>1. pc[p] = "remove" /\ HasHomes(p) /\ Key(p) \in Keys
  BY WithHomes DEF erase
<1>2. CASE Found(p) = {}
  BY <1>2 DEF erase
<1>3. CASE Found(p) # {}
  <2> DEFINE pl == CHOOSE pl \in Found(p) : TRUE
  <2>1. pl \in Found(p)
    BY <1>3
  <2>2. Put(pl, Empty) /\ ret' = [ret EXCEPT ![p] = At(pl).val] /\ pc'[p] = "done"
    BY <1>3 DEF erase, Goto, IndInv, VarsOK
  <2> HIDE DEF pl
  <2> QED
    BY <1>1, <2>1, <2>2 DEF Removes, Put
<1> QED
  BY <1>2, <1>3

LEMMA MoveEffect ==
  ASSUME IndInv, NEW p \in Threads, cuckoopath_move(p)
  PROVE  UNCHANGED <<bucket, ret>> \/ \E pl, to : Shifts(p, pl, to)
<1>1. /\ pc[p] = "move" /\ Path(p) /\ Len(path[p]) > 1 /\ path[p] \in Seq(Records)
      /\ Held(p) = MoveLocks(p)
  BY DEF cuckoopath_move, IndInv, VarsOK, Searching, Locking, Doing, WithLocks, Needs
<1>2. CASE ~CanMove(p)
  BY <1>2 DEF cuckoopath_move
<1>3. CASE CanMove(p)
  <2> DEFINE n == Len(path[p]) - 1
             from == path[p][n]
             last == path[p][n + 1]
             pl == <<from.bucket, from.slot>>
             to == <<last.bucket, last.slot>>
  <2>1. /\ n \in Nat /\ n >= 1 /\ n \in 1..Len(path[p]) /\ n + 1 \in 1..Len(path[p])
        /\ n + 1 = Len(path[p]) /\ n \in 1..(Len(path[p]) - 1)
    BY <1>1
  <2>2. /\ from \in Records /\ last \in Records /\ last = Last(p)
        /\ from.bucket \in Numbers(hp[p]) /\ last.bucket \in Numbers(hp[p])
        /\ from.key \in Keys /\ last.bucket = alt_index(hp[p], from.key, from.bucket)
    BY <1>1, <2>1 DEF Path, Last
  <2>3. {lock_ind(from.bucket), lock_ind(last.bucket)} \subseteq Held(p)
    <3>1. CASE n = 1
      <4>1. MoveLocks(p) = LocksOf(HomeSet(hp[p], Key(p)) \cup {last.bucket})
        BY <2>1, <2>2, <3>1 DEF MoveLocks
      <4>2. from.bucket \in HomeSet(hp[p], Key(p))
        BY <1>1, <3>1 DEF Path
      <4> QED
        BY <1>1, <4>1, <4>2 DEF LocksOf
    <3>2. CASE n # 1
      <4>1. MoveLocks(p) = LocksOf({from.bucket, last.bucket})
        BY <2>1, <2>2, <3>2 DEF MoveLocks
      <4> QED
        BY <1>1, <4>1 DEF LocksOf
    <3> QED
      BY <3>1, <3>2
  <2>4. hp[p] = hashpower_
    BY <1>1, <2>3 DEF IndInv, Locking
  <2>5. /\ bucket[from.bucket][from.slot].key = from.key /\ bucket[last.bucket][last.slot] = Empty
        /\ bucket' = [bucket EXCEPT ![from.bucket][from.slot] = Empty,
                                    ![last.bucket][last.slot] = bucket[from.bucket][from.slot]]
        /\ ret' = ret
    BY <1>3, <2>2 DEF cuckoopath_move, CanMove, Occupied
  <2>6. At(pl) \in Entry
    <3>1. from.slot \in Slots /\ At(pl) = bucket[from.bucket][from.slot]
      BY <2>2 DEF Records, At
    <3>2. At(pl) \in Entry \cup {Empty}
      BY <2>2, <2>4, <3>1, Table
    <3> QED
      BY <2>2, <2>5, <3>1, <3>2, Table
  <2>7. pl \in Numbers(hashpower_) \X Slots /\ to \in Numbers(hashpower_) \X Slots
    BY <2>2, <2>4 DEF Records
  <2>8. /\ pl[1] = from.bucket /\ pl[2] = from.slot /\ to[1] = last.bucket /\ to[2] = last.slot
        /\ At(pl) = bucket[from.bucket][from.slot] /\ At(to) = bucket[last.bucket][last.slot]
    BY DEF At
  <2> HIDE DEF pl, to, from, last, n
  <2>9. Shifts(p, pl, to)
    BY <1>1, <2>2, <2>3, <2>4, <2>5, <2>6, <2>7, <2>8 DEF Shifts
  <2> QED
    BY <2>9
<1> QED
  BY <1>2, <1>3

(* A step that does not double the table adds, removes or moves one entry.  *)
LEMMA Effects ==
  ASSUME IndInv, NEW p \in Threads, Invoke(p) \/ Work(p), ~Double(p), ~move_buckets(p)
  PROVE  /\ hashpower_' = hashpower_
         /\ \/ bucket' = bucket
            \/ \E pl : Adding(p, pl) \/ Removes(p, pl)
            \/ \E pl, to : Shifts(p, pl, to)
<1>1. CASE cuckoo_insert(p)
  BY <1>1, InsertEffect DEF cuckoo_insert
<1>2. CASE AddToFreed(p)
  BY <1>2, AddEffect DEF AddToFreed
<1>3. CASE erase(p)
  BY <1>3, EraseEffect DEF erase
<1>4. CASE cuckoopath_move(p)
  BY <1>4, MoveEffect DEF cuckoopath_move
<1>5. CASE \/ Invoke(p) \/ Snapshot(p) \/ slot_search(p) \/ cuckoopath_search(p) \/ PrepareMove(p)
           \/ Throws(p) \/ BeginDouble(p) \/ Return(p) \/ find(p) \/ TakeLock(p)
  BY <1>5 DEF Invoke, Snapshot, slot_search, cuckoopath_search, PrepareMove, Throws, BeginDouble,
     Return, table, find, TakeLock
<1> QED
  BY <1>1, <1>2, <1>3, <1>4, <1>5, Kinds
(* An entry is changed under the lock of its bucket.                        *)
Within(p) ==
  /\ bucket' \in [Numbers(hashpower_) -> [Slots -> Entry \cup {Empty}]]
  /\ \A i \in Numbers(hashpower_) : \A s \in Slots :
       bucket'[i][s] # bucket[i][s] => lock[lock_ind(i)] = p

LEMMA Writes ==
  ASSUME IndInv, NEW p \in Threads, Invoke(p) \/ Work(p), ~Double(p), ~move_buckets(p)
  PROVE  Within(p)
<1>0. /\ bucket \in [Numbers(hashpower_) -> [Slots -> Entry \cup {Empty}]]
      /\ HomeSet(hashpower_, Key(p)) \subseteq Numbers(hashpower_)
      /\ HasHomes(p) => \A i \in HomeSet(hashpower_, Key(p)) : lock[lock_ind(i)] = p
      /\ Empty \in Entry \cup {Empty}
  BY Table, HomesType DEF HasHomes, LocksOf, Held
<1>1. CASE bucket' = bucket
  BY <1>0, <1>1 DEF Within
<1>2. ASSUME NEW pl, Adding(p, pl) PROVE Within(p)
  <2>1. [key |-> Key(p), val |-> call[p].val] \in Entry
    BY <1>2 DEF Adding, Entry
  <2> QED
    BY <1>0, <1>2, <2>1 DEF Adding, Within
<1>3. ASSUME NEW pl, Removes(p, pl) PROVE Within(p)
  <2>1. pl \in HomeSet(hashpower_, Key(p)) \X Slots
    BY <1>3, FoundPlaces DEF Removes
  <2> QED
    BY <1>0, <1>3, <2>1 DEF Removes, Within
<1>4. ASSUME NEW pl, NEW to, Shifts(p, pl, to) PROVE Within(p)
  <2>1. lock[lock_ind(pl[1])] = p /\ lock[lock_ind(to[1])] = p
    BY <1>4 DEF Shifts, Held
  <2> QED
    BY <1>0, <1>4, <2>1 DEF Shifts, Within
<1> QED
  BY <1>1, <1>2, <1>3, <1>4, Effects

(* Where look-ups find an entry stays the same.                             *)
LEMMA MigratingStays ==
  ASSUME IndInv, NEW p \in Threads, Invoke(p) \/ Work(p), ~Double(p), ~move_buckets(p)
  PROVE  pc[p] # "migrate" /\ pc'[p] # "migrate"
<1>0. VarsOK /\ (pc[p] = "lock" => goal[p] \in WithLocks) /\ "migrate" \notin WithLocks
  BY DEF IndInv, Locking, WithLocks
<1> USE DEF VarsOK, Goto
<1>1. CASE Invoke(p) \/ Snapshot(p) \/ find(p) \/ erase(p) \/ Return(p) \/ Throws(p)
  BY <1>0, <1>1 DEF Invoke, Snapshot, find, erase, Return, Throws, LockThen
<1>2. CASE TakeLock(p)
  BY <1>0, <1>2 DEF TakeLock
<1>3. CASE cuckoo_insert(p) \/ slot_search(p) \/ cuckoopath_search(p) \/ PrepareMove(p)
  BY <1>0, <1>3 DEF cuckoo_insert, Cuckoo, slot_search, cuckoopath_search, PrepareMove, StartOver, LockThen
<1>4. CASE cuckoopath_move(p) \/ AddToFreed(p) \/ BeginDouble(p)
  BY <1>0, <1>4 DEF cuckoopath_move, Cuckoo, AddToFreed, BeginDouble, StartOver, LockThen
<1> QED
  BY <1>1, <1>2, <1>3, <1>4, Kinds

LEMMA ReachableStays ==
  ASSUME IndInv, NEW p \in Threads, Invoke(p) \/ Work(p), ~Double(p), ~move_buckets(p),
         NEW pl, NEW k, Reachable(pl, k)
  PROVE  Reachable(pl, k)'
<1>1. hashpower_' = hashpower_
  BY Effects
<1>2. CASE pl[1] \in HomeSet(hashpower_, k)
  BY <1>1, <1>2 DEF Reachable, HomeSet, Homes, index_hash, alt_index
<1>3. ASSUME NEW m \in Migrating, lock[lock_ind(pl[1])] = m, pl[1] \in HomeSet(hp[m], k)
      PROVE  Reachable(pl, k)'
  <2>1. m \in Threads /\ pc[m] = "migrate" /\ m # p
    BY <1>3, MigratingStays DEF Migrating
  <2>2. pc'[m] = "migrate" /\ hp'[m] = hp[m] /\ lock'[lock_ind(pl[1])] = m
    BY <1>3, <2>1, OthersStay, LocksStay, LockTypes
  <2>3. HomeSet(hp'[m], k) = HomeSet(hp[m], k)
    BY <2>2
  <2> QED
    BY <1>3, <2>1, <2>2, <2>3 DEF Reachable, Migrating
<1> QED
  BY <1>2, <1>3 DEF Reachable

(* Who has the locks of the homes of its key finds the key if it is there.  *)
LEMMA Reached ==
  ASSUME IndInv, NEW p \in Threads, pc[p] # "migrate", NEW k, HomeSet(hashpower_, k) # {},
         LocksOf(HomeSet(hashpower_, k)) \subseteq Held(p), NEW pl, Reachable(pl, k)
  PROVE  pl[1] \in HomeSet(hashpower_, k)
<1> SUFFICES ASSUME NEW m \in Migrating, lock[lock_ind(pl[1])] = m, pl[1] \in HomeSet(hp[m], k),
                    pl[1] \notin HomeSet(hashpower_, k)
             PROVE  FALSE
  BY DEF Reachable
<1>1. /\ m \in Threads /\ pc[m] = "migrate" /\ m # p /\ Doubling(m) /\ VarsOK
  BY DEF IndInv, Migrating
<1>2. hashpower_ = hp[m] + 1 /\ hp[m] \in Nat
  BY <1>1, Table DEF Doubling, VarsOK, Hashpowers
<1>3. PICK n \in {1, 2} : pl[1] = Homes(hp[m], k)[n]
  BY HomesType
<1> DEFINE j == Homes(hashpower_, k)[n]
<1>4. j = pl[1] \cup {hp[m]}
  BY <1>2, <1>3, HomesGrow, HomesType
<1>5. lock[lock_ind(j)] = p
  BY HomesType DEF LocksOf, Held
<1>6. pl[1] \in Numbers(hp[m])
  BY <1>3, HomesType
<1>7. lock_ind(pl[1]) \in OldLocks(m)
  BY <1>2, <1>6, LocksGrow, LockTypes DEF OldLocks, Held
<1>8. lock_ind(j) \in Locks /\ (lock_ind(j) \subseteq Bits(hp[m]) \/ lock[lock_ind(j)] = m)
  BY <1>1, <1>7, LockTypes DEF Doubling
<1>9. lock_ind(j) = lock_ind(pl[1]) \/ ~(lock_ind(j) \subseteq Bits(hp[m]))
  BY <1>2, <1>4, <1>6, LocksGrow
<1> QED
  BY <1>1, <1>5, <1>8, <1>9

(* No key gets into the table twice.                                        *)
LEMMA EntriesAre ==
  ASSUME IndInv
  PROVE  /\ \A pl : pl \in Entries <=> pl \in Numbers(hashpower_) \X Slots /\ At(pl) # Empty
         /\ \A pl \in Entries : At(pl) \in Entry
BY Table DEF Entries, At

LEMMA EntriesAfter ==
  ASSUME NEW n, bucket' \in [Numbers(n) -> [Slots -> Entry \cup {Empty}]]
  PROVE  \A pl : pl \in Entries' <=> pl \in Numbers(n) \X Slots /\ At(pl)' # Empty
BY DEF Entries, At

LEMMA SoundAfterAdd ==
  ASSUME IndInv, NEW p \in Threads, Invoke(p) \/ Work(p), ~Double(p), ~move_buckets(p),
         NEW new, Adding(p, new)
  PROVE  UniqueKeys' /\ InPlace'
<1>1. /\ HasHomes(p) /\ Key(p) \in Keys /\ Found(p) = {} /\ pc[p] \in {"put", "add"} /\ At(new) = Empty
      /\ new \in HomeSet(hashpower_, Key(p)) \X Slots /\ new \in Numbers(hashpower_) \X Slots
      /\ bucket' = [bucket EXCEPT ![new[1]][new[2]] = [key |-> Key(p), val |-> call[p].val]]
  BY HomesType DEF Adding
<1>2. /\ bucket' \in [Numbers(hashpower_) -> [Slots -> Entry \cup {Empty}]]
      /\ hashpower_' = hashpower_
  BY Writes, Effects DEF Within
<1>3. ASSUME NEW pl \in Entries, At(pl).key = Key(p) PROVE FALSE
  <2>1. Reachable(pl, Key(p)) /\ pl[2] \in Slots
    BY <1>3, EntriesAre DEF IndInv, InPlace
  <2>2. pl[1] \in HomeSet(hashpower_, Key(p))
    BY <1>1, <2>1, Reached, HomesType DEF HasHomes
  <2>3. pl \in HomeSet(hashpower_, Key(p)) \X Slots
    BY <1>3, <2>2, EntriesAre
  <2> QED
    BY <1>1, <1>3, <2>3, FoundPlaces
<1>4. At(new)'.key = Key(p)
  BY <1>1, <1>2, Table DEF At
<1>5. ASSUME NEW pl \in Entries', pl # new PROVE pl \in Entries /\ At(pl)' = At(pl)
  <2>1. pl \in Numbers(hashpower_) \X Slots /\ At(pl)' # Empty
    BY <1>2, EntriesAfter
  <2>2. At(pl)' = At(pl)
    BY <1>1, <1>5, <2>1, Table DEF At
  <2> QED
    BY <2>1, <2>2, EntriesAre
<1>6. UniqueKeys'
  <2> SUFFICES ASSUME NEW pl \in Entries', NEW other \in Entries', At(pl)'.key = At(other)'.key
               PROVE  pl = other
    BY DEF UniqueKeys
  <2> QED
    BY <1>3, <1>4, <1>5 DEF IndInv, UniqueKeys
<1>7. InPlace'
  <2> SUFFICES ASSUME NEW pl \in Entries' PROVE Reachable(pl, At(pl).key)'
    BY DEF InPlace
  <2>1. CASE pl = new
    BY <1>1, <1>2, <1>4, <2>1 DEF Reachable, HomeSet, Homes, index_hash, alt_index
  <2>2. CASE pl # new
    BY <1>5, <2>2, ReachableStays DEF IndInv, InPlace
  <2> QED
    BY <2>1, <2>2
<1> QED
  BY <1>6, <1>7

LEMMA SoundAfterRemove ==
  ASSUME IndInv, NEW p \in Threads, Invoke(p) \/ Work(p), ~Double(p), ~move_buckets(p),
         NEW gone, Removes(p, gone)
  PROVE  UniqueKeys' /\ InPlace'
<1>1. gone \in HomeSet(hashpower_, Key(p)) \X Slots
  BY FoundPlaces DEF Removes
<1>2. /\ bucket' \in [Numbers(hashpower_) -> [Slots -> Entry \cup {Empty}]]
      /\ bucket' = [bucket EXCEPT ![gone[1]][gone[2]] = Empty]
      /\ gone \in Numbers(hashpower_) \X Slots
  BY <1>1, Writes, HomesType DEF Within, Removes
<1>3. ASSUME NEW pl \in Entries' PROVE pl \in Entries /\ At(pl)' = At(pl)
  <2>1. pl \in Numbers(hashpower_) \X Slots /\ At(pl)' # Empty
    BY <1>2, EntriesAfter
  <2>2. At(pl)' = At(pl)
    BY <1>2, <2>1, Table DEF At
  <2> QED
    BY <2>1, <2>2, EntriesAre
<1>4. UniqueKeys'
  BY <1>3 DEF IndInv, UniqueKeys
<1>5. InPlace'
  BY <1>3, ReachableStays DEF IndInv, InPlace
<1> QED
  BY <1>4, <1>5

LEMMA SoundAfterMove ==
  ASSUME IndInv, NEW p \in Threads, Invoke(p) \/ Work(p), ~Double(p), ~move_buckets(p),
         NEW from, NEW to, Shifts(p, from, to)
  PROVE  UniqueKeys' /\ InPlace'
<1>1. /\ pc[p] = "move" /\ from \in Numbers(hashpower_) \X Slots /\ to \in Numbers(hashpower_) \X Slots
      /\ At(from) \in Entry /\ At(to) = Empty /\ to[1] = alt_index(hashpower_, At(from).key, from[1])
      /\ lock[lock_ind(from[1])] = p /\ from # to
      /\ bucket' = [bucket EXCEPT ![from[1]][from[2]] = Empty, ![to[1]][to[2]] = At(from)]
  BY Table DEF Shifts, Held
<1>2. /\ bucket' \in [Numbers(hashpower_) -> [Slots -> Entry \cup {Empty}]]
      /\ hashpower_' = hashpower_
  BY Writes, Effects DEF Within
<1>3. At(to)' = At(from) /\ At(from)' = Empty
  BY <1>1, <1>2, Table DEF At
<1>4. ASSUME NEW pl \in Entries', pl # to PROVE pl \in Entries /\ At(pl)' = At(pl) /\ pl # from
  <2>1. pl \in Numbers(hashpower_) \X Slots /\ At(pl)' # Empty
    BY <1>2, EntriesAfter
  <2>2. pl # from
    BY <1>3, <2>1
  <2>3. At(pl)' = At(pl)
    BY <1>1, <1>4, <2>1, <2>2, Table DEF At
  <2> QED
    BY <2>1, <2>2, <2>3, EntriesAre
<1>5. from \in Entries
  BY <1>1, EntriesAre, Table
<1>6. UniqueKeys'
  <2> SUFFICES ASSUME NEW pl \in Entries', NEW other \in Entries', At(pl)'.key = At(other)'.key
               PROVE  pl = other
    BY DEF UniqueKeys
  <2> QED
    BY <1>3, <1>4, <1>5 DEF IndInv, UniqueKeys
<1>7. to[1] \in HomeSet(hashpower_, At(from).key)
  <2>1. Reachable(from, At(from).key)
    BY <1>5 DEF IndInv, InPlace
  <2>2. p \notin Migrating
    BY <1>1 DEF Migrating
  <2>3. from[1] \in HomeSet(hashpower_, At(from).key)
    BY <1>1, <2>1, <2>2 DEF Reachable
  <2> QED
    BY <1>1, <2>3, AltHome
<1>8. InPlace'
  <2> SUFFICES ASSUME NEW pl \in Entries' PROVE Reachable(pl, At(pl).key)'
    BY DEF InPlace
  <2>1. CASE pl = to
    BY <1>2, <1>3, <1>7, <2>1 DEF Reachable, HomeSet, Homes, index_hash, alt_index
  <2>2. CASE pl # to
    BY <1>4, <2>2, ReachableStays DEF IndInv, InPlace
  <2> QED
    BY <2>1, <2>2
<1> QED
  BY <1>6, <1>8

LEMMA SoundOtherwise ==
  ASSUME IndInv, NEW p \in Threads, Invoke(p) \/ Work(p), ~Double(p), ~move_buckets(p)
  PROVE  UniqueKeys' /\ InPlace' /\ TableOK'
<1>1. ASSUME bucket' = bucket PROVE UniqueKeys' /\ InPlace'
  <2>1. Entries' = Entries /\ \A pl : At(pl)' = At(pl)
    BY <1>1 DEF Entries, At
  <2> QED
    BY <2>1, ReachableStays DEF IndInv, UniqueKeys, InPlace
<1>2. TableOK'
  BY Writes, Effects, Table DEF Within, TableOK
<1> QED
  BY <1>1, <1>2, Effects, SoundAfterAdd, SoundAfterRemove, SoundAfterMove
-----------------------------------------------------------------------------
(* Doubling.                                                                *)
LEMMA DoubleEffect ==
  ASSUME IndInv, NEW p \in Threads, Double(p)
  PROVE  /\ hp[p] = hashpower_ /\ hashpower_' = hashpower_ + 1 /\ Held(p) = Locks /\ Migrating = {}
         /\ bucket' \in [Numbers(hashpower_ + 1) -> [Slots -> Entry \cup {Empty}]]
         /\ \A i \in Numbers(hashpower_) : bucket'[i] = bucket[i]
         /\ \A i \in Numbers(hashpower_ + 1) \ Numbers(hashpower_) : \A s \in Slots : bucket'[i][s] = Empty
         /\ hashpower_' \in 1..MaxHashpower /\ pc[p] = "double" /\ lock' = lock
<1>1. pc[p] = "double" /\ lock' = lock
  BY DEF Double
<1>2. /\ hp[p] = hashpower_ /\ hp[p] < MaxHashpower /\ expansion_lock_ = p /\ Held(p) = Locks
  BY <1>1 DEF IndInv, Doubling, Doing, Locking, WithLocks, Needs
<1>3. ASSUME NEW m \in Migrating PROVE FALSE
  <2>1. m \in Threads /\ expansion_lock_ = m /\ pc[m] = "migrate"
    BY DEF Migrating, IndInv, Doubling, Doing
  <2> QED
    BY <1>1, <1>2, <2>1
<1>4. Cardinality(UNION DOMAIN bucket) = hashpower_
  <2>1. UNION DOMAIN bucket = 0..(hashpower_ - 1)
    BY Table DEF Numbers, Bits
  <2>2. hashpower_ \in Nat \ {0} /\ 0 \in Int /\ hashpower_ - 1 \in Int
    BY Table
  <2>3. Cardinality(0..(hashpower_ - 1)) = IF 0 > hashpower_ - 1 THEN 0 ELSE (hashpower_ - 1) - 0 + 1
    BY <2>2, FS_Interval
  <2>4. (IF 0 > hashpower_ - 1 THEN 0 ELSE (hashpower_ - 1) - 0 + 1) = hashpower_
    BY <2>2
  <2> QED
    BY <2>1, <2>3, <2>4
<1>5. bucket' = [i \in Numbers(hashpower_ + 1) |->
                   IF i \in DOMAIN bucket THEN bucket[i] ELSE [s \in Slots |-> Empty]]
  BY <1>4 DEF Double
<1>6. Numbers(hashpower_) \subseteq Numbers(hashpower_ + 1)
  BY Table, NumbersGrow
<1>7. hashpower_' = hashpower_ + 1 /\ hashpower_' \in 1..MaxHashpower
  BY <1>2, Table DEF Double
<1>8. \A i \in Numbers(hashpower_) : bucket'[i] = bucket[i]
  BY <1>5, <1>6, Table
<1>9. \A i \in Numbers(hashpower_ + 1) \ Numbers(hashpower_) : bucket'[i] = [s \in Slots |-> Empty]
  BY <1>5, <1>6, Table
<1>10. bucket' \in [Numbers(hashpower_ + 1) -> [Slots -> Entry \cup {Empty}]]
  <2>1. ASSUME NEW i \in Numbers(hashpower_ + 1)
        PROVE  (IF i \in DOMAIN bucket THEN bucket[i] ELSE [s \in Slots |-> Empty])
                 \in [Slots -> Entry \cup {Empty}]
    BY Table
  <2> QED
    BY <1>5, <2>1
<1> QED
  BY <1>1, <1>2, <1>3, <1>7, <1>8, <1>9, <1>10

LEMMA SoundAfterDouble ==
  ASSUME IndInv, NEW p \in Threads, Double(p)
  PROVE  /\ UniqueKeys' /\ InPlace' /\ TableOK'
         /\ Entries' = Entries /\ \A pl \in Entries : At(pl)' = At(pl)
<1>1. /\ pc'[p] = "migrate" /\ hp' = hp
  BY DEF Double, Goto, locals, IndInv, VarsOK
<1>2. TableOK'
  BY DoubleEffect DEF TableOK
<1>3. /\ Entries' = Entries
      /\ \A pl \in Entries : At(pl)' = At(pl) /\ pl[1] \in Numbers(hashpower_)
  <2>1. \A pl : pl \in Entries' <=> pl \in Numbers(hashpower_ + 1) \X Slots /\ At(pl)' # Empty
    BY DoubleEffect, Table, EntriesAfter
  <2>2. \A pl \in Numbers(hashpower_) \X Slots : At(pl)' = At(pl)
    BY DoubleEffect DEF At
  <2>3. \A pl \in Numbers(hashpower_ + 1) \X Slots : pl[1] \notin Numbers(hashpower_) => At(pl)' = Empty
    BY DoubleEffect DEF At
  <2>4. Numbers(hashpower_) \subseteq Numbers(hashpower_ + 1)
    BY Table, NumbersGrow
  <2> QED
    BY <2>1, <2>2, <2>3, <2>4, EntriesAre
<1>4. UniqueKeys'
  BY <1>3 DEF IndInv, UniqueKeys
<1>5. InPlace'
  <2> SUFFICES ASSUME NEW pl \in Entries PROVE Reachable(pl, At(pl).key)'
    BY <1>3 DEF InPlace
  <2> DEFINE k == At(pl).key
  <2>1. pl[1] \in HomeSet(hashpower_, k)
    BY DoubleEffect DEF IndInv, InPlace, Reachable
  <2>2. p \in Migrating' /\ lock'[lock_ind(pl[1])] = p /\ hp'[p] = hashpower_
    BY <1>1, DoubleEffect, LockTypes DEF Migrating, Held
  <2>3. At(pl)' = At(pl) /\ HomeSet(hp'[p], k) = HomeSet(hashpower_, k)
    BY <1>3, <2>2
  <2> QED
    BY <2>1, <2>2, <2>3 DEF Reachable
<1> QED
  BY <1>2, <1>3, <1>4, <1>5

(* The slots the entries that move get: each one of its own.                *)
LEMMA Ranks ==
  ASSUME NEW M \in SUBSET Slots
  PROVE  /\ \A s \in M : Rank(M, s) \in Slots
         /\ \A s, t \in M : Rank(M, s) = Rank(M, t) => s = t
<1>0. SLOT_PER_BUCKET \in Nat \ {0} /\ \A s \in Slots : s \in Nat
  BY SizesAssumption DEF Slots
<1>1. IsFiniteSet(Slots) /\ Cardinality(Slots) = SLOT_PER_BUCKET
  BY <1>0, FS_Interval DEF Slots
<1>2. ASSUME NEW s \in M
      PROVE  IsFiniteSet({t \in M : t <= s}) /\ Rank(M, s) \in Slots
  <2>1. {t \in M : t <= s} \subseteq Slots
    OBVIOUS
  <2>2. IsFiniteSet({t \in M : t <= s}) /\ Rank(M, s) <= SLOT_PER_BUCKET
    BY <1>1, <2>1, FS_Subset DEF Rank
  <2>3. s \in {t \in M : t <= s}
    BY <1>0
  <2>4. Rank(M, s) \in Nat /\ Rank(M, s) # 0
    BY <2>2, <2>3, FS_CardinalityType, FS_EmptySet DEF Rank
  <2> QED
    BY <1>0, <2>2, <2>4 DEF Slots
<1>3. ASSUME NEW s \in M, NEW t \in M, s < t
      PROVE  Rank(M, s) < Rank(M, t)
  <2> DEFINE Low  == {i \in M : i <= s}
             High == {i \in M : i <= t}
  <2>1. Low \subseteq High /\ t \in High /\ t \notin Low
    <3>1. s \in Nat /\ t \in Nat /\ t <= t /\ ~(t <= s)
      BY <1>0, <1>3
    <3>2. \A i \in M : i <= s => i <= t
      BY <1>0, <1>3, <3>1
    <3> QED
      BY <3>1, <3>2
  <2>2. IsFiniteSet(High) /\ Cardinality(Low) \in Nat /\ Cardinality(High) \in Nat
    BY <1>2, FS_CardinalityType
  <2>3. Cardinality(Low) <= Cardinality(High) /\ (Cardinality(Low) = Cardinality(High) => Low = High)
    BY <2>1, <2>2, FS_Subset
  <2> QED
    BY <2>1, <2>2, <2>3 DEF Rank
<1>4. ASSUME NEW s \in M, NEW t \in M, Rank(M, s) = Rank(M, t)
      PROVE  s = t
  <2>1. s \in Nat /\ t \in Nat /\ Rank(M, s) \in Nat
    BY <1>0, <1>2
  <2>2. ~(s < t) /\ ~(t < s)
    BY <1>3, <1>4, <2>1
  <2> QED
    BY <2>1, <2>2
<1> QED
  BY <1>2, <1>4

(* Where an entry is once the buckets of a lock have been moved.            *)
Goes(p, l, pl) == pl[1] \in Numbers(hp[p]) /\ lock_ind(pl[1]) = l /\ pl[2] \in Moving(p, pl[1])
Dest(p, l, pl) == IF Goes(p, l, pl) THEN <<New(p, pl[1]), Rank(Moving(p, pl[1]), pl[2])>> ELSE pl

MovesBuckets(p, l) ==
  /\ l \in Held(p) /\ (OldLocks(p) # {} => l \in OldLocks(p))
  /\ bucket' = [i \in DOMAIN bucket |-> [s \in Slots |->
       IF i \in Numbers(hp[p]) /\ lock_ind(i) = l /\ s \in Moving(p, i) THEN Empty
       ELSE IF /\ hp[p] \in i /\ i \ {hp[p]} \in Numbers(hp[p]) /\ lock_ind(i \ {hp[p]}) = l
               /\ {t \in Moving(p, i \ {hp[p]}) : Rank(Moving(p, i \ {hp[p]}), t) = s} # {}
            THEN bucket[i \ {hp[p]}][CHOOSE t \in {u \in Moving(p, i \ {hp[p]}) :
                                                     Rank(Moving(p, i \ {hp[p]}), u) = s} : TRUE]
       ELSE bucket[i][s]]]
  /\ lock' = [m \in Locks |-> IF m = l THEN None ELSE lock[m]]
  /\ IF Held(p) = {l} THEN pc' = [pc EXCEPT ![p] = "snapshot"] /\ expansion_lock_' = None
                      ELSE UNCHANGED <<pc, expansion_lock_>>

LEMMA MigrateState ==
  ASSUME IndInv, NEW p \in Threads, pc[p] = "migrate"
  PROVE  /\ hp[p] \in Nat /\ hashpower_ = hp[p] + 1 /\ Migrating = {p} /\ expansion_lock_ = p
         /\ bucket \in [Numbers(hp[p] + 1) -> [Slots -> Entry \cup {Empty}]]
         /\ \A i \in Numbers(hp[p]) : \A s \in Slots :
              lock[lock_ind(i)] = p => bucket[New(p, i)][s] = Empty
         /\ \A i \in Numbers(hp[p]) : i \in Numbers(hp[p] + 1) /\ New(p, i) \in Numbers(hp[p] + 1)
                                      /\ hp[p] \in New(p, i) /\ New(p, i) \ {hp[p]} = i /\ hp[p] \notin i
<1>1. /\ hp[p] \in Nat /\ hashpower_ = hp[p] + 1 /\ expansion_lock_ = p
      /\ \A i \in Numbers(hp[p]) : \A s \in Slots :
              lock[lock_ind(i)] = p => bucket[New(p, i)][s] = Empty
  BY Table DEF IndInv, VarsOK, Hashpowers, Doubling, Doing
<1>2. Migrating = {p}
  <2>1. ASSUME NEW m \in Migrating PROVE m = p
    BY <1>1, <2>1 DEF Migrating, IndInv, Doubling, Doing
  <2> QED
    BY <2>1 DEF Migrating
<1>3. \A i \in Numbers(hp[p]) : i \in Numbers(hp[p] + 1) /\ New(p, i) \in Numbers(hp[p] + 1)
                                /\ hp[p] \in New(p, i) /\ New(p, i) \ {hp[p]} = i /\ hp[p] \notin i
  BY <1>1, NumbersGrow, BitsGrow DEF New, Numbers
<1> QED
  BY <1>1, <1>2, <1>3, Table

LEMMA MigrateEffect ==
  ASSUME IndInv, NEW p \in Threads, move_buckets(p)
  PROVE  pc[p] = "migrate" /\ hashpower_' = hashpower_ /\ hp' = hp /\ \E l \in Locks : MovesBuckets(p, l)
<1>1. pc[p] = "migrate" /\ hashpower_' = hashpower_ /\ hp' = hp
  BY DEF move_buckets, locals
<1>2. PICK l \in Releasable(p) :
       /\ bucket' = [i \in DOMAIN bucket |-> [s \in Slots |->
                IF i \in {j \in Numbers(hp[p]) : lock_ind(j) = l} /\ s \in Moving(p, i) THEN Empty
                    ELSE IF hp[p] \in i /\ i \ {hp[p]} \in {j \in Numbers(hp[p]) : lock_ind(j) = l}
                            /\ {t \in Moving(p, i \ {hp[p]}) : Rank(Moving(p, i \ {hp[p]}), t) = s} # {}
                         THEN bucket[i \ {hp[p]}][CHOOSE t \in {u \in Moving(p, i \ {hp[p]}) :
                                                     Rank(Moving(p, i \ {hp[p]}), u) = s} : TRUE]
                    ELSE bucket[i][s]]]
       /\ ReleaseSome(p, {l})
       /\ IF Held(p) = {l} THEN StartOver(p) /\ expansion_lock_' = None
                           ELSE UNCHANGED <<pc, expansion_lock_>>
  BY DEF move_buckets
<1>3. l \in Held(p) /\ l \in Locks /\ lock[l] = p /\ (OldLocks(p) # {} => l \in OldLocks(p))
  BY DEF Releasable, OldLocks, Held
<1>4. lock' = [m \in Locks |-> IF m = l THEN None ELSE lock[m]]
  BY <1>2, <1>3 DEF ReleaseSome
<1>5. bucket' = [i \in DOMAIN bucket |-> [s \in Slots |->
       IF i \in Numbers(hp[p]) /\ lock_ind(i) = l /\ s \in Moving(p, i) THEN Empty
       ELSE IF /\ hp[p] \in i /\ i \ {hp[p]} \in Numbers(hp[p]) /\ lock_ind(i \ {hp[p]}) = l
               /\ {t \in Moving(p, i \ {hp[p]}) : Rank(Moving(p, i \ {hp[p]}), t) = s} # {}
            THEN bucket[i \ {hp[p]}][CHOOSE t \in {u \in Moving(p, i \ {hp[p]}) :
                                                     Rank(Moving(p, i \ {hp[p]}), u) = s} : TRUE]
       ELSE bucket[i][s]]]
  BY <1>2
<1> QED
  BY <1>1, <1>2, <1>3, <1>4, <1>5 DEF MovesBuckets, StartOver, Goto

LEMMA Halves ==
  ASSUME IndInv, NEW p \in Threads, pc[p] = "migrate"
  PROVE  /\ hp[p] \in Nat
         /\ \A i \in Numbers(hp[p]) : /\ i \in Numbers(hp[p] + 1) /\ New(p, i) \in Numbers(hp[p] + 1)
                                      /\ New(p, i) \notin Numbers(hp[p])
         /\ \A i \in Numbers(hp[p] + 1) : i \in Numbers(hp[p]) \/ \E j \in Numbers(hp[p]) : i = New(p, j)
         /\ \A i, j \in Numbers(hp[p]) : New(p, i) = New(p, j) => i = j
<1>1. hp[p] \in Nat
  BY MigrateState
<1>2. \A i : New(p, i) = i \cup {hp[p]}
  BY DEF New
<1>3. /\ \A i \in Numbers(hp[p]) : i \in Numbers(hp[p] + 1) /\ New(p, i) \in Numbers(hp[p] + 1)
                                    /\ New(p, i) \notin Numbers(hp[p]) /\ New(p, i) \ {hp[p]} = i
  BY <1>1, <1>2, NumbersGrow
<1>4. ASSUME NEW i \in Numbers(hp[p] + 1), i \notin Numbers(hp[p])
      PROVE  \E j \in Numbers(hp[p]) : i = New(p, j)
  <2>1. i \ {hp[p]} \in Numbers(hp[p]) /\ (i \ {hp[p]}) \cup {hp[p]} = i
    BY <1>1, <1>4, NumbersGrow
  <2> QED
    BY <1>2, <2>1
<1>5. \A i, j \in Numbers(hp[p]) : New(p, i) = New(p, j) => i = j
  BY <1>3
<1> QED
  BY <1>1, <1>3, <1>4, <1>5

(* The buckets of the old half, and those of the new one.                   *)
LEMMA OldHalf ==
  ASSUME IndInv, NEW p \in Threads, pc[p] = "migrate", NEW l \in Locks, MovesBuckets(p, l),
         NEW i \in Numbers(hp[p]), NEW s \in Slots
  PROVE  bucket'[i][s] = IF lock_ind(i) = l /\ s \in Moving(p, i) THEN Empty ELSE bucket[i][s]
<1>1. i \in DOMAIN bucket /\ hp[p] \notin i
  BY MigrateState
<1> QED
  BY <1>1 DEF MovesBuckets

LEMMA NewHalf ==
  ASSUME IndInv, NEW p \in Threads, pc[p] = "migrate", NEW l \in Locks, MovesBuckets(p, l),
         NEW i \in Numbers(hp[p]), NEW s \in Slots
  PROVE  /\ lock_ind(i) # l => bucket'[New(p, i)][s] = bucket[New(p, i)][s]
         /\ lock_ind(i) = l => \/ /\ bucket'[New(p, i)][s] = Empty
                                  /\ \A t \in Moving(p, i) : Rank(Moving(p, i), t) # s
                               \/ \E t \in Moving(p, i) : /\ Rank(Moving(p, i), t) = s
                                                          /\ bucket'[New(p, i)][s] = bucket[i][t]
<1> DEFINE j == New(p, i)
           from == {t \in Moving(p, i) : Rank(Moving(p, i), t) = s}
<1>1. j \in DOMAIN bucket /\ hp[p] \in j /\ j \ {hp[p]} = i /\ j \notin Numbers(hp[p])
  BY MigrateState
<1>2. lock[l] = p
  BY DEF MovesBuckets, Held
<1>3. bucket'[j][s] = IF hp[p] \in j /\ j \ {hp[p]} \in Numbers(hp[p]) /\ lock_ind(j \ {hp[p]}) = l
                           /\ {t \in Moving(p, j \ {hp[p]}) : Rank(Moving(p, j \ {hp[p]}), t) = s} # {}
                      THEN bucket[j \ {hp[p]}][CHOOSE t \in {u \in Moving(p, j \ {hp[p]}) :
                                                  Rank(Moving(p, j \ {hp[p]}), u) = s} : TRUE]
                      ELSE bucket[j][s]
  <2> HIDE DEF j
  <2> QED
    BY <1>1 DEF MovesBuckets
<1>4. bucket'[j][s] = IF lock_ind(i) = l /\ from # {} THEN bucket[i][CHOOSE t \in from : TRUE]
                                                      ELSE bucket[j][s]
  BY <1>1, <1>3
<1>5. lock_ind(i) = l => bucket[j][s] = Empty
  BY <1>2, MigrateState
<1>6. from # {} => (CHOOSE t \in from : TRUE) \in from
  OBVIOUS
<1> HIDE DEF j
<1> QED
  BY <1>4, <1>5, <1>6 DEF j

LEMMA MigrateTable ==
  ASSUME IndInv, NEW p \in Threads, pc[p] = "migrate", NEW l \in Locks, MovesBuckets(p, l)
  PROVE  bucket' \in [Numbers(hp[p] + 1) -> [Slots -> Entry \cup {Empty}]]
<1>0. DOMAIN bucket = Numbers(hp[p] + 1)
  BY MigrateState
<1>1. /\ DOMAIN bucket' = Numbers(hp[p] + 1)
      /\ \A i \in Numbers(hp[p] + 1) : bucket'[i] = [s \in Slots |-> bucket'[i][s]]
  BY <1>0 DEF MovesBuckets
<1>2. /\ hp[p] \in Nat
      /\ \A i \in Numbers(hp[p]) : i \in Numbers(hp[p] + 1) /\ New(p, i) \in Numbers(hp[p] + 1)
      /\ \A i \in Numbers(hp[p] + 1) : i \in Numbers(hp[p]) \/ \E j \in Numbers(hp[p]) : i = New(p, j)
  BY Halves
<1>3. \A i \in Numbers(hp[p] + 1) : \A s \in Slots : bucket[i][s] \in Entry \cup {Empty}
  BY MigrateState
<1>4. ASSUME NEW i \in Numbers(hp[p] + 1), NEW s \in Slots PROVE bucket'[i][s] \in Entry \cup {Empty}
  <2>1. CASE i \in Numbers(hp[p])
    BY <1>3, <2>1, OldHalf
  <2>2. ASSUME NEW j \in Numbers(hp[p]), i = New(p, j) PROVE bucket'[i][s] \in Entry \cup {Empty}
    <3>1. \A t \in Moving(p, j) : bucket[j][t] \in Entry \cup {Empty}
      BY <1>2, <1>3 DEF Moving
    <3> QED
      BY <1>3, <2>2, <3>1, NewHalf
  <2> QED
    BY <1>2, <2>1, <2>2
<1>5. \A i \in Numbers(hp[p] + 1) : bucket'[i] \in [Slots -> Entry \cup {Empty}]
  BY <1>1, <1>4
<1>6. bucket' = [i \in Numbers(hp[p] + 1) |-> bucket'[i]]
  BY <1>1 DEF MovesBuckets
<1> QED
  BY <1>1, <1>5, <1>6

(* Every entry that was in the table is there still, at its new place, and  *)
(* no other.                                                                *)
LEMMA MigrateEntries ==
  ASSUME IndInv, NEW p \in Threads, pc[p] = "migrate", NEW l \in Locks, MovesBuckets(p, l)
  PROVE  /\ \A pl \in Entries : \A x : x = Dest(p, l, pl) => x \in Entries' /\ At(x)' = At(pl)
         /\ \A x \in Entries' : \E pl \in Entries : x = Dest(p, l, pl)
<1>1. /\ \A pl : pl \in Entries' <=> pl \in Numbers(hp[p] + 1) \X Slots /\ At(pl)' # Empty
      /\ \A pl : pl \in Entries <=> pl \in Numbers(hp[p] + 1) \X Slots /\ At(pl) # Empty
  BY MigrateTable, MigrateState, EntriesAfter, EntriesAre
<1>2. /\ \A i \in Numbers(hp[p]) : /\ i \in Numbers(hp[p] + 1) /\ New(p, i) \in Numbers(hp[p] + 1)
                                   /\ New(p, i) \notin Numbers(hp[p])
      /\ \A i \in Numbers(hp[p] + 1) : i \in Numbers(hp[p]) \/ \E j \in Numbers(hp[p]) : i = New(p, j)
      /\ \A i, j \in Numbers(hp[p]) : New(p, i) = New(p, j) => i = j
  BY Halves
<1>3. ASSUME NEW i \in Numbers(hp[p])
      PROVE  /\ Moving(p, i) \subseteq Slots
             /\ \A t \in Moving(p, i) : bucket[i][t] # Empty /\ Rank(Moving(p, i), t) \in Slots
             /\ \A s, t \in Moving(p, i) : Rank(Moving(p, i), s) = Rank(Moving(p, i), t) => s = t
  <2>1. Moving(p, i) \subseteq Slots /\ \A t \in Moving(p, i) : bucket[i][t] # Empty
    BY DEF Moving, Moves
  <2> QED
    BY <2>1, Ranks
<1>4. ASSUME NEW pl \in Entries
      PROVE  \A x : x = Dest(p, l, pl) => x \in Entries' /\ At(x)' = At(pl)
  <2> DEFINE i == pl[1]
             s == pl[2]
  <2>1. pl = <<i, s>> /\ i \in Numbers(hp[p] + 1) /\ s \in Slots /\ At(pl) # Empty
    BY <1>1
  <2>2. CASE Goes(p, l, pl)
    <3> DEFINE r == Rank(Moving(p, i), s)
    <3>1. i \in Numbers(hp[p]) /\ lock_ind(i) = l /\ s \in Moving(p, i) /\ r \in Slots
      BY <1>3, <2>2 DEF Goes
    <3>2. bucket'[New(p, i)][r] = bucket[i][s]
      BY <1>3, <3>1, NewHalf
    <3>3. Dest(p, l, pl) = <<New(p, i), r>>
      BY <2>2 DEF Dest
    <3> HIDE DEF i, s, r
    <3>4. At(<<New(p, i), r>>) = bucket[New(p, i)][r]
      BY DEF At
    <3>5. ASSUME NEW x, x = <<New(p, i), r>> PROVE At(x)' = bucket'[New(p, i)][r]
      BY <3>5 DEF At
    <3>6. At(pl) = bucket[i][s]
      BY DEF At, i, s
    <3> QED
      BY <1>1, <1>2, <2>1, <3>1, <3>2, <3>3, <3>5, <3>6
  <2>3. CASE ~Goes(p, l, pl)
    <3>1. bucket'[i][s] = bucket[i][s]
      <4>1. CASE i \in Numbers(hp[p])
        BY <2>1, <2>3, <4>1, OldHalf DEF Goes
      <4>2. ASSUME NEW j \in Numbers(hp[p]), i = New(p, j) PROVE bucket'[i][s] = bucket[i][s]
        <5>1. CASE lock_ind(j) = l
          <6>1. bucket[i][s] = Empty
            BY <2>1, <4>2, <5>1, MigrateState DEF MovesBuckets, Held
          <6> QED
            BY <2>1, <6>1 DEF At
        <5>2. CASE lock_ind(j) # l
          BY <2>1, <4>2, <5>2, NewHalf
        <5> QED
          BY <5>1, <5>2
      <4> QED
        BY <1>2, <2>1, <4>1, <4>2
    <3>2. At(pl)' = At(pl)
      BY <3>1 DEF At
    <3> QED
      BY <1>1, <2>1, <2>3, <3>2 DEF Dest
  <2> QED
    BY <2>2, <2>3
<1>5. ASSUME NEW x \in Entries' PROVE \E pl \in Entries : x = Dest(p, l, pl)
  <2> DEFINE i == x[1]
             s == x[2]
  <2>1. x = <<i, s>> /\ i \in Numbers(hp[p] + 1) /\ s \in Slots /\ bucket'[i][s] # Empty
    BY <1>1 DEF At
  <2> HIDE DEF i, s
  <2>2. ASSUME bucket'[i][s] = bucket[i][s], i \in Numbers(hp[p]) => ~(lock_ind(i) = l /\ s \in Moving(p, i))
        PROVE  \E pl \in Entries : x = Dest(p, l, pl)
    <3>1. x \in Entries
      BY <1>1, <2>1, <2>2 DEF At
    <3>2. ~Goes(p, l, x)
      BY <2>1, <2>2 DEF Goes
    <3> QED
      BY <3>1, <3>2 DEF Dest
  <2>3. CASE i \in Numbers(hp[p])
    <3>1. ~(lock_ind(i) = l /\ s \in Moving(p, i)) /\ bucket'[i][s] = bucket[i][s]
      BY <2>1, <2>3, OldHalf
    <3> QED
      BY <2>2, <3>1
  <2>4. ASSUME NEW j \in Numbers(hp[p]), i = New(p, j) PROVE \E pl \in Entries : x = Dest(p, l, pl)
    <3>1. CASE lock_ind(j) # l
      <4>1. bucket'[i][s] = bucket[i][s]
        BY <2>1, <2>4, <3>1, NewHalf
      <4> QED
        BY <1>2, <2>2, <2>4, <4>1
    <3>2. CASE lock_ind(j) = l
      <4>1. PICK t \in Moving(p, j) : Rank(Moving(p, j), t) = s /\ bucket'[i][s] = bucket[j][t]
        BY <2>1, <2>4, <3>2, NewHalf
      <4>2. <<j, t>> \in Entries
        <5>1. t \in Slots /\ j \in Numbers(hp[p] + 1) /\ At(<<j, t>>) # Empty
          BY <1>2, <1>3, <4>1 DEF At
        <5> QED
          BY <1>1, <5>1
      <4>3. Goes(p, l, <<j, t>>) /\ Dest(p, l, <<j, t>>) = <<New(p, j), s>>
        BY <3>2, <4>1 DEF Goes, Dest
      <4> QED
        BY <2>1, <2>4, <4>2, <4>3
    <3> QED
      BY <3>1, <3>2
  <2> QED
    BY <1>2, <2>1, <2>3, <2>4
<1> QED
  BY <1>4, <1>5

LEMMA SoundAfterMigrate ==
  ASSUME IndInv, NEW p \in Threads, move_buckets(p)
  PROVE  UniqueKeys' /\ InPlace' /\ TableOK'
<1>1. PICK l \in Locks : MovesBuckets(p, l)
  BY MigrateEffect
<1>2. /\ pc[p] = "migrate" /\ hashpower_' = hashpower_ /\ hp' = hp /\ hp[p] \in Nat
      /\ hashpower_ = hp[p] + 1 /\ Migrating = {p}
  BY MigrateEffect, MigrateState
<1>3. TableOK'
  BY <1>1, <1>2, MigrateTable, Table DEF TableOK
<1>4. ASSUME NEW x \in Entries'
      PROVE  \E pl \in Entries : x = Dest(p, l, pl) /\ At(x)' = At(pl)
  BY <1>1, <1>2, MigrateEntries
<1>5. UniqueKeys'
  <2> SUFFICES ASSUME NEW x \in Entries', NEW other \in Entries', At(x)'.key = At(other)'.key
               PROVE  x = other
    BY DEF UniqueKeys
  <2>1. PICK pl \in Entries : x = Dest(p, l, pl) /\ At(x)' = At(pl)
    BY <1>4
  <2>2. PICK o \in Entries : other = Dest(p, l, o) /\ At(other)' = At(o)
    BY <1>4
  <2>3. pl = o
    BY <2>1, <2>2 DEF IndInv, UniqueKeys
  <2> QED
    BY <2>1, <2>2, <2>3
<1>6. InPlace'
  <2> SUFFICES ASSUME NEW x \in Entries' PROVE Reachable(x, At(x).key)'
    BY DEF InPlace
  <2>1. PICK pl \in Entries : x = Dest(p, l, pl) /\ At(x)' = At(pl)
    BY <1>4
  <2> DEFINE k == At(pl).key
  <2>3. Reachable(pl, k) /\ At(x)'.key = k
    BY <2>1 DEF IndInv, InPlace
  <2>4. ASSUME x[1] \in HomeSet(hashpower_, k) PROVE Reachable(x, At(x).key)'
    BY <1>2, <2>3, <2>4 DEF Reachable, HomeSet, Homes, index_hash, alt_index
  <2>5. CASE Goes(p, l, pl)
    <3>1. pl[2] \in Moving(p, pl[1]) /\ At(pl) = bucket[pl[1]][pl[2]] /\ x[1] = New(p, pl[1])
      BY <2>1, <2>5 DEF Goes, Dest, At
    <3>2. PICK n \in {1, 2} : Homes(hp[p] + 1, k)[n] = New(p, pl[1])
      BY <3>1 DEF Moving, Moves
    <3> QED
      BY <1>2, <2>4, <3>1, <3>2, HomesType
  <2>6. CASE ~Goes(p, l, pl)
    <3>1. x = pl
      BY <2>1, <2>6 DEF Dest
    <3>2. CASE pl[1] \in HomeSet(hashpower_, k)
      BY <2>4, <3>1, <3>2
    <3>3. CASE lock[lock_ind(pl[1])] = p /\ pl[1] \in HomeSet(hp[p], k) /\ pl[1] \notin HomeSet(hashpower_, k)
      <4>1. pl[1] \in Numbers(hp[p]) /\ pl[2] \in Slots
        BY <3>3, HomesType, EntriesAre
      <4>2. CASE lock_ind(pl[1]) = l
        <5>1. PICK n \in {1, 2} : pl[1] = Homes(hp[p], k)[n]
          BY <3>3, HomesType
        <5>2. Homes(hp[p] + 1, k)[n] = New(p, pl[1])
          <6>1. Homes(hp[p] + 1, k)[n] \in {pl[1], pl[1] \cup {hp[p]}}
            BY <1>2, <5>1, HomesGrow
          <6>2. Homes(hp[p] + 1, k)[n] \in HomeSet(hashpower_, k)
            BY <1>2, HomesType
          <6> QED
            BY <3>3, <6>1, <6>2 DEF New
        <5>3. bucket[pl[1]][pl[2]] # Empty /\ bucket[pl[1]][pl[2]].key = k
          BY EntriesAre DEF At
        <5>4. Moves(p, pl[1], bucket[pl[1]][pl[2]])
          BY <5>1, <5>2, <5>3 DEF Moves
        <5> QED
          BY <2>6, <4>1, <4>2, <5>4 DEF Goes, Moving
      <4>3. CASE lock_ind(pl[1]) # l
        <5>1. lock'[lock_ind(pl[1])] = p /\ lock_ind(pl[1]) \in Held(p)
          BY <1>1, <3>3, <4>3, LockTypes DEF MovesBuckets, Held
        <5>2. pc'[p] = "migrate"
          BY <1>1, <1>2, <4>3, <5>1 DEF MovesBuckets
        <5>3. x[1] \in HomeSet(hp'[p], k)
          BY <1>2, <3>1, <3>3
        <5> QED
          BY <2>3, <3>1, <5>1, <5>2, <5>3 DEF Reachable, Migrating
      <4> QED
        BY <4>2, <4>3
    <3> QED
      BY <1>2, <2>3, <3>2, <3>3 DEF Reachable
  <2> QED
    BY <2>5, <2>6
<1> QED
  BY <1>3, <1>5, <1>6
-----------------------------------------------------------------------------
(* What the other threads rely on.                                          *)
LEMMA SameNeeds ==
  ASSUME NEW p, path'[p] = path[p], hp'[p] = hp[p], call'[p] = call[p]
  PROVE  Path(p)' = Path(p) /\ \A l : Needs(p, l)' = Needs(p, l)
BY DEF Path, Needs, MoveLocks, Key, Last

LEMMA DoubleAlone ==
  ASSUME IndInv, NEW p \in Threads, Invoke(p) \/ Work(p), NEW r \in Threads, r # p, expansion_lock_ = r
  PROVE  ~Double(p) /\ ~move_buckets(p)
BY DEF IndInv, Doubling, Doing, Double, move_buckets

LEMMA OthersLocking ==
  ASSUME IndInv, NEW p \in Threads, Invoke(p) \/ Work(p), NEW r \in Threads, r # p
  PROVE  Calling(r)' /\ Locking(r)' /\ Searching(r)'
<1>1. /\ pc'[r] = pc[r] /\ call'[r] = call[r] /\ hp'[r] = hp[r] /\ want'[r] = want[r]
      /\ goal'[r] = goal[r] /\ q'[r] = q[r] /\ tried'[r] = tried[r] /\ path'[r] = path[r]
      /\ Held(r)' = Held(r)
  BY OthersStay, HeldStays
<1>2. Calling(r) /\ Locking(r) /\ Searching(r)
  BY DEF IndInv
<1>3. Calling(r)'
  BY <1>1, <1>2 DEF Calling, Doing
<1>4. Held(r) # {} => hashpower_' = hashpower_
  <2>1. CASE Double(p)
    <3>1. Held(p) = Locks
      BY <2>1, DoubleEffect
    <3> QED
      BY <3>1 DEF Held
  <2>2. CASE move_buckets(p)
    BY <2>2 DEF move_buckets
  <2>3. CASE ~Double(p) /\ ~move_buckets(p)
    BY <2>3, Effects
  <2> QED
    BY <2>1, <2>2, <2>3
<1>5. Path(r)' = Path(r) /\ \A l : Needs(r, l)' = Needs(r, l)
  BY <1>1, SameNeeds
<1>6. Locking(r)'
  BY <1>1, <1>2, <1>4, <1>5 DEF Locking
<1>7. Searching(r)'
  BY <1>1, <1>2, <1>5 DEF Searching, Doing, Here
<1> QED
  BY <1>3, <1>6, <1>7

LEMMA ExpansionLock ==
  ASSUME IndInv, NEW p \in Threads, Invoke(p) \/ Work(p), NEW r \in Threads, r # p
  PROVE  expansion_lock_' = r <=> expansion_lock_ = r
<1>0. None \notin Threads
  BY ThreadsAssumption
<1>1. CASE BeginDouble(p)
  BY <1>0, <1>1 DEF BeginDouble
<1>2. CASE move_buckets(p)
  BY <1>0, <1>2 DEF move_buckets, IndInv, Doubling, Doing
<1>3. CASE \/ Invoke(p) \/ Snapshot(p) \/ TakeLock(p) \/ find(p) \/ erase(p) \/ cuckoo_insert(p)
           \/ slot_search(p) \/ cuckoopath_search(p) \/ PrepareMove(p) \/ cuckoopath_move(p)
           \/ AddToFreed(p) \/ Throws(p) \/ Double(p) \/ Return(p)
  BY <1>3 DEF Invoke, Snapshot, TakeLock, find, erase, cuckoo_insert, slot_search, cuckoopath_search,
     PrepareMove, cuckoopath_move, AddToFreed, Throws, Double, Return, table
<1> QED
  BY <1>1, <1>2, <1>3, Kinds

LEMMA OthersDoubling ==
  ASSUME IndInv, NEW p \in Threads, Invoke(p) \/ Work(p), NEW r \in Threads, r # p
  PROVE  Doubling(r)'
<1>1. pc'[r] = pc[r] /\ goal'[r] = goal[r] /\ hp'[r] = hp[r] /\ Held(r)' = Held(r) /\ Doubling(r)
  BY OthersStay, HeldStays DEF IndInv
<1>2. expansion_lock_' = r <=> Doing(r)' \in {"double", "migrate"}
  BY <1>1, ExpansionLock DEF Doubling, Doing
<1>3. CASE expansion_lock_ # r
  BY <1>1, <1>2, <1>3, ExpansionLock DEF Doubling, Doing
<1>4. CASE expansion_lock_ = r
  <2>1. hashpower_' = hashpower_ /\ Within(p)
    BY <1>4, DoubleAlone, Effects, Writes
  <2>2. (Doing(r) = "double" => hp[r] = hashpower_ /\ hp[r] < MaxHashpower)'
    BY <1>1, <2>1 DEF Doubling, Doing
  <2>3. CASE pc[r] = "migrate"
    <3>1. OldLocks(r)' = OldLocks(r)
      BY <1>1 DEF OldLocks
    <3>2. (OldLocks(r) # {} => \A l \in Locks : l \subseteq Bits(hp[r]) \/ lock[l] = r)'
      BY <1>1, <2>3, <3>1, LocksStay DEF Doubling
    <3>3. ASSUME NEW i \in Numbers(hp[r]), NEW s \in Slots, lock'[lock_ind(i)] = r
          PROVE  bucket'[New(r, i)][s] = Empty
      <4>1. lock[lock_ind(i)] = r /\ lock_ind(i) \in Locks /\ lock_ind(New(r, i)) \in Locks
        BY <3>3, LocksStay, LockTypes
      <4>2. hp[r] \in Nat /\ hashpower_ = hp[r] + 1 /\ New(r, i) \in Numbers(hp[r] + 1) /\ New(r, i) = i \cup {hp[r]}
        BY <2>3, MigrateState DEF New
      <4>3. bucket[New(r, i)][s] = Empty
        BY <2>3, <4>1, MigrateState
      <4>4. lock_ind(i) \in OldLocks(r)
        BY <4>1, <4>2, LocksGrow DEF OldLocks, Held
      <4>5. lock[lock_ind(New(r, i))] = r
        BY <1>1, <2>3, <4>1, <4>2, <4>4, LocksGrow DEF Doubling
      <4> QED
        BY <2>1, <4>2, <4>3, <4>5 DEF Within
    <3>4. (\A i \in Numbers(hp[r]) : \A s \in Slots :
             lock[lock_ind(i)] = r => bucket[New(r, i)][s] = Empty)'
      BY <1>1, <3>3 DEF New
    <3> QED
      BY <1>1, <1>2, <2>1, <2>2, <2>3, <3>2, <3>4 DEF Doubling
  <2>4. CASE pc[r] # "migrate"
    BY <1>1, <1>2, <2>2, <2>4 DEF Doubling
  <2> QED
    BY <2>3, <2>4
<1> QED
  BY <1>3, <1>4
-----------------------------------------------------------------------------
(* What the thread that takes the step can rely on after it.                *)
Mine(p) == Calling(p) /\ Locking(p) /\ Searching(p) /\ Doubling(p)

LEMMA Own ==
  ASSUME IndInv, NEW p \in Threads
  PROVE  /\ VarsOK /\ Calling(p) /\ Locking(p) /\ Searching(p) /\ Doubling(p)
         /\ None \notin Threads /\ SLOT_PER_BUCKET \in Nat \ {0} /\ None \notin Keys
BY ThreadsAssumption, SizesAssumption, KeysAssumption DEF IndInv, None

LEMMA AfterRelease ==
  ASSUME NEW p \in Threads, NEW ls, ReleaseSome(p, ls)
  PROVE  Held(p)' = Held(p) \ ls
BY ThreadsAssumption DEF Held, ReleaseSome

(* A thread that starts over, looks for a path anew or is done.             *)
Quits(p, l) ==
  /\ pc' = [pc EXCEPT ![p] = l] /\ Held(p)' = {} /\ UNCHANGED <<call, want, goal>>
  /\ pc[p] \notin {"lock", "double", "migrate", "idle", "snapshot"} /\ UNCHANGED expansion_lock_
  /\ \/ l \in {"snapshot", "done"} /\ (l = "done" => hp' = hp)
     \/ /\ l = "search" /\ hp' = hp /\ call[p].op = "put"
        /\ q' = [q EXCEPT ![p] = Start(p)] /\ tried' = [tried EXCEPT ![p] = 0]
        /\ path' = [path EXCEPT ![p] = << >>]
     \/ l = "full" /\ hp' = hp /\ call[p].op = "put"

LEMMA QuitsMine ==
  ASSUME IndInv, NEW p \in Threads, NEW l, Quits(p, l)
  PROVE  Mine(p)'
<1>0. /\ VarsOK /\ Calling(p) /\ Locking(p) /\ Searching(p) /\ Doubling(p)
      /\ SLOT_PER_BUCKET \in Nat \ {0}
  BY Own
<1>1. /\ pc'[p] = l /\ Held(p)' = {} /\ call'[p] = call[p] /\ want'[p] = {} /\ goal'[p] = "idle"
      /\ l \in {"snapshot", "done", "search", "full"}
  BY <1>0 DEF Quits, VarsOK, Locking
<1>2. Calling(p)'
  BY <1>0, <1>1 DEF Quits, Calling, Doing
<1>3. Locking(p)'
  BY <1>1 DEF Locking, WithLocks
<1>4. Searching(p)'
  <2>1. CASE l = "search"
    <3>1. q'[p] = Start(p) /\ tried'[p] = 0 /\ path'[p] = << >> /\ hp'[p] = hp[p]
      BY <1>0, <2>1 DEF Quits, VarsOK
    <3>2. \A n \in 1..2 : Start(p)[n].bucket \in Numbers(hp[p])
      BY HomesType DEF Start, B
    <3>3. q'[p] # << >> /\ Len(q'[p]) = 2
      BY <3>1 DEF Start
    <3> QED
      BY <1>0, <1>1, <2>1, <3>1, <3>2, <3>3 DEF Searching, Doing
  <2>2. CASE l # "search"
    BY <1>1, <2>2 DEF Searching, Doing
  <2> QED
    BY <2>1, <2>2
<1>5. Doubling(p)'
  BY <1>0, <1>1 DEF Quits, Doubling, Doing
<1> QED
  BY <1>2, <1>3, <1>4, <1>5 DEF Mine

LEMMA CuckooQuits ==
  ASSUME IndInv, NEW p \in Threads, Cuckoo(p), pc[p] \in {"put", "move", "add"},
         UNCHANGED <<call, hp, want, goal, expansion_lock_>>
  PROVE  Mine(p)'
<1>1. Held(p)' = {}
  <2>1. Held(p)' = Held(p) \ Locks
    BY AfterRelease DEF Cuckoo, Release
  <2> QED
    BY <2>1 DEF Held
<1>2. call[p].op = "put"
  BY Own DEF Calling, Doing
<1>3. Quits(p, "search")
  BY <1>1, <1>2 DEF Quits, Cuckoo, Goto
<1> QED
  BY <1>3, QuitsMine

LEMMA Finishes ==
  ASSUME IndInv, NEW p \in Threads, Release(p), Goto(p, "done"),
         pc[p] \in {"get", "remove", "put", "add"}, UNCHANGED <<call, hp, want, goal, expansion_lock_>>
  PROVE  Mine(p)'
<1>1. Held(p)' = {}
  <2>1. Held(p)' = Held(p) \ Locks
    BY AfterRelease DEF Release
  <2> QED
    BY <2>1 DEF Held
<1>2. Quits(p, "done")
  BY <1>1 DEF Quits, Goto
<1> QED
  BY <1>2, QuitsMine

LEMMA NoLocks ==
  ASSUME IndInv, NEW p \in Threads, pc[p] \notin WithLocks \cup {"lock", "migrate"}, lock' = lock
  PROVE  Held(p) = {} /\ Held(p)' = {} /\ want[p] = {} /\ goal[p] = "idle"
<1>1. Held(p)' = Held(p)
  BY DEF Held
<1> QED
  BY <1>1, Own DEF Locking, WithLocks

LEMMA OwnSimple ==
  ASSUME IndInv, NEW p \in Threads,
         find(p) \/ erase(p) \/ cuckoo_insert(p) \/ AddToFreed(p) \/ Throws(p)
  PROVE  Mine(p)'
<1>1. CASE find(p)
  BY <1>1, Finishes DEF find
<1>2. CASE erase(p)
  BY <1>2, Finishes DEF erase
<1>3. CASE cuckoo_insert(p)
  BY <1>3, Finishes, CuckooQuits DEF cuckoo_insert
<1>4. CASE AddToFreed(p)
  BY <1>4, Finishes, CuckooQuits DEF AddToFreed
<1>5. CASE Throws(p)
  <2>1. Held(p)' = {}
    BY <1>5, NoLocks DEF Throws, table, WithLocks
  <2>2. Quits(p, "done") /\ pc[p] = "full"
    BY <1>5, <2>1 DEF Quits, Throws, Goto, table, locals
  <2> QED
    BY <2>2, QuitsMine
<1> QED
  BY <1>1, <1>2, <1>3, <1>4, <1>5

LEMMA OwnInvoke ==
  ASSUME IndInv, NEW p \in Threads, Invoke(p), OnlyMapCalls
  PROVE  Mine(p)' /\ puts' \in 0..MaxPuts /\ call'[p] \in MapCalls /\ call' = [call EXCEPT ![p] = call'[p]]
<1>0. /\ VarsOK /\ Calling(p) /\ Locking(p) /\ Searching(p) /\ Doubling(p)
  BY Own
<1>1. pc'[p] = "snapshot" /\ pc[p] = "idle"
  BY <1>0 DEF VarsOK, Invoke, Goto
<1>2. Held(p)' = {} /\ want'[p] = {} /\ goal'[p] = "idle"
  BY <1>1, NoLocks DEF Invoke, table, locals, WithLocks
<1>3. PICK c \in work[p] : IF c.op = "put"
       THEN /\ puts < MaxPuts
            /\ puts' = puts + 1
            /\ call' = [call EXCEPT ![p] = [c EXCEPT !.val = puts + 1]]
       ELSE call' = [call EXCEPT ![p] = c] /\ UNCHANGED puts
  BY DEF Invoke
<1>4. c \in [op : {"put", "get", "remove"}, key : Keys, val : {None}]
  <2>1. work \in [Threads -> SUBSET Requests] /\ c.op # "rehash"
    BY <1>0, WorkloadsAssumption DEF OnlyMapCalls, VarsOK
  <2> QED
    BY <2>1 DEF Requests
<1>5. MaxPuts \in Nat /\ puts \in 0..MaxPuts
  BY <1>0, SizesAssumption DEF VarsOK
<1>6. call'[p] \in MapCalls /\ (call'[p].op = "put" => call'[p].val \in Vals) /\ puts' \in 0..MaxPuts
  <2>1. CASE c.op = "put"
    <3>1. puts + 1 \in Vals /\ call'[p] = [c EXCEPT !.val = puts + 1] /\ puts' = puts + 1
      BY <1>0, <1>3, <1>5, <2>1 DEF Vals, VarsOK
    <3>2. call'[p] = [op |-> c.op, key |-> c.key, val |-> puts + 1]
      BY <1>4, <3>1
    <3> QED
      BY <1>4, <1>5, <3>1, <3>2 DEF MapCalls, Vals
  <2>2. CASE c.op # "put"
    <3>1. call'[p] = c /\ puts' = puts
      BY <1>0, <1>3, <2>2 DEF VarsOK
    <3> QED
      BY <1>4, <1>5, <2>2, <3>1 DEF MapCalls, None
  <2> QED
    BY <2>1, <2>2
<1>7. call' = [call EXCEPT ![p] = call'[p]]
  BY <1>0, <1>3 DEF VarsOK
<1>8. Calling(p)'
  BY <1>1, <1>2, <1>6 DEF Calling, Doing, MapCalls, Idle
<1>9. Locking(p)' /\ Searching(p)'
  BY <1>1, <1>2 DEF Locking, WithLocks, Searching, Doing
<1>10. Doubling(p)'
  BY <1>0, <1>1, <1>2 DEF Doubling, Doing, Invoke, table
<1> QED
  BY <1>6, <1>7, <1>8, <1>9, <1>10 DEF Mine

LEMMA OwnReturn ==
  ASSUME IndInv, NEW p \in Threads, Return(p)
  PROVE  Mine(p)'
<1>0. /\ VarsOK /\ Calling(p) /\ Locking(p) /\ Searching(p) /\ Doubling(p)
  BY Own
<1>1. pc'[p] = "idle" /\ pc[p] = "done" /\ call'[p] = Idle
  BY <1>0 DEF VarsOK, Return, Goto
<1>2. Held(p)' = {} /\ want'[p] = {} /\ goal'[p] = "idle"
  BY <1>1, NoLocks DEF Return, table, WithLocks
<1>3. Calling(p)'
  BY <1>1 DEF Calling, Doing, Idle
<1>4. Locking(p)' /\ Searching(p)'
  BY <1>1, <1>2 DEF Locking, WithLocks, Searching, Doing
<1>5. Doubling(p)'
  BY <1>0, <1>1, <1>2 DEF Doubling, Doing, Return, table
<1> QED
  BY <1>3, <1>4, <1>5 DEF Mine

(* A thread that goes for locks.                                            *)
Waits(p, l) ==
  /\ pc[p] \in {"snapshot", "moves", "full"} /\ Held(p)' = {} /\ call' = call
  /\ pc'[p] = "lock" /\ goal'[p] = l /\ want'[p] = Needs(p, l)' /\ want'[p] # {}
  /\ hp'[p] \in 1..MaxHashpower /\ l \in WithLocks
  /\ l = call[p].op \/ (l \in {"move", "add", "double"} /\ call[p].op = "put")

LEMMA WaitsMine ==
  ASSUME IndInv, NEW p \in Threads, NEW l, Waits(p, l)
  PROVE  /\ Locking(p)' /\ Calling(p)'
         /\ l \notin {"move", "add"} => Searching(p)'
         /\ l # "double" /\ UNCHANGED expansion_lock_ => Doubling(p)'
<1>0. VarsOK /\ Calling(p) /\ Locking(p) /\ Doubling(p)
  BY Own
<1>1. /\ Doing(p)' = l /\ pc'[p] = "lock" /\ call'[p] = call[p] /\ hp'[p] \in 1..MaxHashpower
      /\ l \in {"get", "put", "remove", "move", "add", "double"}
  <2>1. Doing(p)' = IF pc'[p] = "lock" THEN goal'[p] ELSE pc'[p]
    BY DEF Doing
  <2> QED
    BY <2>1 DEF Waits, WithLocks
<1>2. Locking(p)'
  BY DEF Waits, Locking, WithLocks
<1>3. Calling(p)'
  <2>1. call[p].op \in {"put", "get", "remove", "rehash", "idle"}
    BY <1>0 DEF VarsOK, Calls, MapCalls, Idle
  <2> QED
    BY <1>0, <1>1, <2>1 DEF Waits, Calling
<1>4. l \notin {"move", "add"} => Searching(p)'
  BY <1>1 DEF Searching
<1>5. l # "double" /\ UNCHANGED expansion_lock_ => Doubling(p)'
  BY <1>0, <1>1 DEF Waits, Doubling, Doing
<1> QED
  BY <1>2, <1>3, <1>4, <1>5

LEMMA OwnSnapshot ==
  ASSUME IndInv, NEW p \in Threads, Snapshot(p)
  PROVE  Mine(p)'
<1>0. VarsOK /\ Calling(p) /\ pc[p] = "snapshot"
  BY Own DEF Snapshot
<1> DEFINE l == call[p].op
<1>1. l \in {"put", "get", "remove"} /\ l \in WithLocks /\ call' = call
  BY <1>0 DEF Calling, VarsOK, Calls, MapCalls, Idle, WithLocks, Snapshot
<1>2. /\ hp'[p] = hashpower_ /\ hashpower_ \in 1..MaxHashpower
      /\ want'[p] = LocksOf(HomeSet(hashpower_, Key(p)))
      /\ goal'[p] = l /\ pc'[p] = "lock"
  BY <1>0, <1>1, Table DEF Snapshot, LockThen, Goto, VarsOK
<1>3. Held(p)' = {}
  BY <1>0, NoLocks DEF Snapshot, table, WithLocks
<1>4. Needs(p, l)' = LocksOf(HomeSet(hp[p], Key(p)))'
  BY <1>1 DEF Needs
<1>5. LocksOf(HomeSet(hp[p], Key(p)))' = want'[p] /\ want'[p] # {}
  BY <1>1, <1>2, HomesType DEF LocksOf, lock_ind, HomeSet, Homes, index_hash, alt_index, Key
<1>6. Waits(p, l)
  BY <1>0, <1>1, <1>2, <1>3, <1>4, <1>5 DEF Waits
<1>7. UNCHANGED expansion_lock_
  BY DEF Snapshot, table
<1> QED
  BY <1>1, <1>6, <1>7, WaitsMine DEF Mine

LEMMA OwnTakeLock ==
  ASSUME IndInv, NEW p \in Threads, TakeLock(p)
  PROVE  Mine(p)'
<1>0. VarsOK /\ Calling(p) /\ Locking(p) /\ Searching(p) /\ Doubling(p) /\ pc[p] = "lock"
  BY Own DEF TakeLock
<1>1. /\ hashpower_' = hashpower_ /\ expansion_lock_' = expansion_lock_ /\ call'[p] = call[p]
      /\ hp'[p] = hp[p] /\ q'[p] = q[p] /\ tried'[p] = tried[p] /\ path'[p] = path[p] /\ bucket' = bucket
  BY DEF TakeLock
<1>2. /\ goal[p] \in WithLocks /\ goal[p] \notin {"lock", "idle", "snapshot", "migrate", "path", "search", "rehash"}
      /\ Held(p) \cup want[p] = Needs(p, goal[p]) /\ Held(p) \cap want[p] = {}
  BY <1>0 DEF Locking, WithLocks
<1>3. PICK l \in want[p] :
       /\ lock[l] = None
       /\ IF Checked(p) /\ Held(p) = {} /\ hashpower_ # hp[p]
          THEN /\ want' = [want EXCEPT ![p] = {}]
               /\ goal' = [goal EXCEPT ![p] = "idle"]
               /\ Goto(p, "snapshot")
               /\ UNCHANGED lock
          ELSE /\ lock' = [lock EXCEPT ![l] = p]
               /\ want' = [want EXCEPT ![p] = @ \ {l}]
               /\ IF want[p] = {l}
                  THEN Goto(p, goal[p]) /\ goal' = [goal EXCEPT ![p] = "idle"]
                  ELSE UNCHANGED <<pc, goal>>
  BY DEF TakeLock
<1>4. CASE Checked(p) /\ Held(p) = {} /\ hashpower_ # hp[p]
  <2>1. pc'[p] = "snapshot" /\ want'[p] = {} /\ goal'[p] = "idle" /\ Held(p)' = {}
    BY <1>0, <1>3, <1>4 DEF VarsOK, Goto, Held
  <2>2. Calling(p)'
    BY <1>0, <1>1, <2>1 DEF Calling, Doing
  <2>3. Locking(p)' /\ Searching(p)'
    BY <2>1 DEF Locking, WithLocks, Searching, Doing
  <2>4. Doubling(p)'
    BY <1>0, <1>1, <1>2, <1>4, <2>1 DEF Doubling, Doing, Checked
  <2> QED
    BY <2>2, <2>3, <2>4 DEF Mine
<1>5. CASE ~(Checked(p) /\ Held(p) = {} /\ hashpower_ # hp[p])
  <2>1. l \in Locks /\ Held(p)' = Held(p) \cup {l} /\ want'[p] = want[p] \ {l}
    BY <1>0, <1>3, <1>5 DEF VarsOK, Held
  <2>2. \/ want[p] = {l} /\ pc'[p] = goal[p] /\ goal'[p] = "idle"
        \/ want[p] # {l} /\ pc'[p] = "lock" /\ goal'[p] = goal[p]
    BY <1>0, <1>3, <1>5 DEF VarsOK, Goto
  <2>3. hp[p] = hashpower_
    BY <1>0, <1>2, <1>5 DEF Checked, Locking, Doubling, Doing, WithLocks
  <2>4. Doing(p)' = Doing(p) /\ Doing(p) = goal[p]
    BY <1>0, <1>2, <2>2 DEF Doing
  <2>5. Path(p)' = Path(p) /\ \A n : Needs(p, n)' = Needs(p, n)
    BY <1>1, SameNeeds
  <2>6. Calling(p)'
    BY <1>0, <1>1, <1>2, <2>2, <2>4 DEF Calling
  <2>7. Locking(p)'
    <3>1. Held(p)' \cup want'[p] = Needs(p, goal[p]) /\ Held(p)' \cap want'[p] = {}
      BY <1>2, <2>1
    <3>2. CASE want[p] = {l}
      <4>1. want'[p] = {} /\ Held(p)' = Needs(p, goal[p])
        BY <2>1, <3>1, <3>2
      <4>2. pc'[p] = goal[p] /\ goal'[p] = "idle"
        BY <2>2, <3>2
      <4> QED
        BY <1>1, <1>2, <2>3, <2>5, <4>1, <4>2 DEF Locking
    <3>3. CASE want[p] # {l}
      <4>1. want'[p] # {} /\ pc'[p] = "lock" /\ goal'[p] = goal[p]
        BY <2>1, <2>2, <3>3
      <4> QED
        BY <1>1, <1>2, <2>3, <2>5, <3>1, <4>1 DEF Locking, WithLocks
    <3> QED
      BY <3>2, <3>3
  <2>8. Searching(p)'
    BY <1>0, <1>1, <1>2, <2>2, <2>4, <2>5 DEF Searching
  <2>9. Doubling(p)'
    BY <1>0, <1>1, <1>2, <2>2, <2>3, <2>4 DEF Doubling
  <2> QED
    BY <2>6, <2>7, <2>8, <2>9 DEF Mine
<1> QED
  BY <1>4, <1>5

LEMMA MoveLocksSome ==
  ASSUME NEW p
  PROVE  MoveLocks(p) # {}
<1>1. \A is : is # {} => LocksOf(is) # {}
  BY DEF LocksOf
<1>2. HomeSet(hp[p], Key(p)) # {}
  BY HomesType
<1> QED
  BY <1>1, <1>2 DEF MoveLocks

LEMMA OwnPrepareMove ==
  ASSUME IndInv, NEW p \in Threads, PrepareMove(p)
  PROVE  Mine(p)'
<1>0. VarsOK /\ Calling(p) /\ Searching(p) /\ pc[p] = "moves"
  BY Own DEF PrepareMove
<1>1. /\ call'[p] = call[p] /\ hp'[p] = hp[p] /\ path'[p] = path[p] /\ call' = call /\ expansion_lock_' = expansion_lock_
  BY DEF PrepareMove, table
<1>2. PICK l \in {"add", "move"} : /\ l = IF Len(path[p]) = 1 THEN "add" ELSE "move"
                                   /\ want'[p] = MoveLocks(p) /\ goal'[p] = l /\ pc'[p] = "lock"
  BY <1>0 DEF PrepareMove, LockThen, Goto, VarsOK
<1>3. Held(p)' = {}
  BY <1>0, NoLocks DEF PrepareMove, table, WithLocks
<1>4. Path(p)' = Path(p) /\ Needs(p, l)' = Needs(p, l)
  BY <1>1, SameNeeds
<1>5. Needs(p, l) = MoveLocks(p) /\ MoveLocks(p) # {}
  BY <1>2, MoveLocksSome DEF Needs
<1>6. Waits(p, l)
  BY <1>0, <1>1, <1>2, <1>3, <1>4, <1>5 DEF Waits, Calling, Doing, WithLocks
<1>8. Locking(p)' /\ Calling(p)' /\ Doubling(p)'
  BY <1>1, <1>2, <1>6, WaitsMine
<1>9. Path(p) /\ path[p] # << >> /\ path[p] \in Seq(Records)
  BY <1>0 DEF Searching, Doing, VarsOK
<1>10. l = "move" => Len(path[p]) > 1
  <2>1. Len(path[p]) \in Nat \ {0}
    BY <1>9, NotEmpty
  <2>2. l = "move" => Len(path[p]) # 1
    BY <1>2
  <2>3. \A n \in Nat \ {0} : n # 1 => n > 1
    OBVIOUS
  <2> QED
    BY <2>1, <2>2, <2>3
<1>11. Searching(p)'
  BY <1>1, <1>2, <1>4, <1>9, <1>10 DEF Searching, Doing
<1> QED
  BY <1>8, <1>11 DEF Mine

LEMMA OwnBeginDouble ==
  ASSUME IndInv, NEW p \in Threads, BeginDouble(p)
  PROVE  Mine(p)'
<1>0. VarsOK /\ Calling(p) /\ Doubling(p) /\ pc[p] = "full" /\ Locking(p)
  BY Own DEF BeginDouble
<1>1. Held(p)' = {} /\ call' = call /\ hp' = hp /\ lock' = lock /\ hashpower_' = hashpower_
  BY <1>0, NoLocks DEF BeginDouble, WithLocks
<1>2. call[p].op = "put" /\ hp[p] \in 1..MaxHashpower
  BY <1>0 DEF Calling, Doing
<1>3. CASE hashpower_ # hp[p]
  <2>1. Quits(p, "snapshot")
    BY <1>0, <1>1, <1>3 DEF Quits, BeginDouble, StartOver, Goto
  <2> QED
    BY <2>1, QuitsMine
<1>4. CASE hashpower_ = hp[p]
  <2>1. /\ pc'[p] = "lock" /\ goal'[p] = "double" /\ want'[p] = Locks /\ expansion_lock_' = p
        /\ hp[p] < MaxHashpower
    BY <1>0, <1>4 DEF BeginDouble, LockThen, Goto, VarsOK
  <2>2. Locks # {} /\ Needs(p, "double")' = Locks
    BY DEF Locks, Numbers, Needs
  <2>3. Waits(p, "double")
    BY <1>0, <1>1, <1>2, <2>1, <2>2 DEF Waits, WithLocks
  <2>4. Locking(p)' /\ Calling(p)' /\ Searching(p)'
    BY <2>3, WaitsMine
  <2>5. Doubling(p)'
    BY <1>1, <1>4, <2>1 DEF Doubling, Doing
  <2> QED
    BY <2>4, <2>5 DEF Mine
<1> QED
  BY <1>3, <1>4

LEMMA OwnDouble ==
  ASSUME IndInv, NEW p \in Threads, Double(p)
  PROVE  Mine(p)'
<1>0. VarsOK /\ Calling(p) /\ Doubling(p) /\ pc[p] = "double" /\ Locking(p)
  BY Own DEF Double
<1>1. /\ pc'[p] = "migrate" /\ call' = call /\ hp' = hp /\ want'[p] = {} /\ goal'[p] = "idle"
      /\ expansion_lock_' = p /\ lock' = lock /\ hashpower_' = hp[p] + 1
      /\ \A l \in Locks : lock'[l] = p
  <2>1. \A l \in Locks : lock[l] = p
    BY DoubleEffect DEF Held
  <2> QED
    BY <1>0, <2>1 DEF Double, Goto, locals, VarsOK, Locking, Doubling, Doing
<1>2. Calling(p)'
  BY <1>0, <1>1 DEF Calling, Doing
<1>3. Locking(p)' /\ Searching(p)'
  BY <1>1 DEF Locking, Searching, WithLocks, Doing
<1>4. ASSUME NEW i \in Numbers(hp[p]), NEW s \in Slots
      PROVE  bucket'[New(p, i)][s] = Empty
  <2>1. hp[p] = hashpower_ /\ hashpower_ \in Nat /\ New(p, i) = i \cup {hashpower_}
    BY DoubleEffect, Table DEF New
  <2>2. New(p, i) \in Numbers(hashpower_ + 1) \ Numbers(hashpower_)
    <3>1. i \in Numbers(hashpower_)
      BY <2>1
    <3>2. i \cup {hashpower_} \in Numbers(hashpower_ + 1) \ Numbers(hashpower_)
      BY <2>1, <3>1, NumbersGrow
    <3> QED
      BY <2>1, <3>2
  <2> QED
    BY <2>2, DoubleEffect
<1>5. (\A i \in Numbers(hp[p]) : \A s \in Slots : lock[lock_ind(i)] = p => bucket[New(p, i)][s] = Empty)'
  BY <1>1, <1>4 DEF New
<1>6. Doubling(p)'
  BY <1>1, <1>5 DEF Doubling, Doing
<1> QED
  BY <1>2, <1>3, <1>6 DEF Mine

LEMMA OwnMoveBuckets ==
  ASSUME IndInv, NEW p \in Threads, move_buckets(p)
  PROVE  Mine(p)'
<1>0. VarsOK /\ Calling(p) /\ Doubling(p) /\ pc[p] = "migrate" /\ Locking(p)
  BY Own DEF move_buckets
<1>1. PICK l \in Locks : MovesBuckets(p, l)
  BY MigrateEffect
<1>2. /\ call' = call /\ hp' = hp /\ want'[p] = {} /\ goal'[p] = "idle" /\ hashpower_' = hashpower_
  BY <1>0 DEF move_buckets, locals, Locking
<1>3. Held(p)' = Held(p) \ {l}
  BY ThreadsAssumption, <1>1 DEF MovesBuckets, Held
<1>4. CASE Held(p) = {l}
  <2>1. pc'[p] = "snapshot" /\ expansion_lock_' = None /\ Held(p)' = {}
    BY <1>0, <1>1, <1>3, <1>4 DEF MovesBuckets, VarsOK
  <2>2. Calling(p)'
    BY <1>0, <1>2, <2>1 DEF Calling, Doing
  <2>3. Locking(p)' /\ Searching(p)'
    BY <1>2, <2>1 DEF Locking, Searching, WithLocks, Doing
  <2>4. Doubling(p)'
    BY <2>1, ThreadsAssumption DEF Doubling, Doing
  <2> QED
    BY <2>2, <2>3, <2>4 DEF Mine
<1>5. CASE Held(p) # {l}
  <2>1. pc'[p] = "migrate" /\ expansion_lock_' = expansion_lock_
    BY <1>0, <1>1, <1>5 DEF MovesBuckets
  <2>2. Calling(p)'
    BY <1>0, <1>2, <2>1 DEF Calling, Doing
  <2>3. Locking(p)' /\ Searching(p)'
    BY <1>2, <2>1 DEF Locking, Searching, WithLocks, Doing
  <2>4. OldLocks(p)' = OldLocks(p) \ {l}
    BY <1>2, <1>3 DEF OldLocks
  <2>5. (OldLocks(p) # {} => \A m \in Locks : m \subseteq Bits(hp[p]) \/ lock[m] = p)'
    <3> SUFFICES ASSUME OldLocks(p)' # {}, NEW m \in Locks, ~(m \subseteq Bits(hp[p]))
                 PROVE  lock'[m] = p
      BY <1>2
    <3>1. l \in OldLocks(p) /\ lock[m] = p
      BY <1>0, <1>1, <2>4 DEF MovesBuckets, Doubling
    <3> QED
      BY <1>1, <3>1 DEF MovesBuckets, OldLocks
  <2>6. ASSUME NEW i \in Numbers(hp[p]), NEW s \in Slots, lock'[lock_ind(i)] = p
        PROVE  bucket'[New(p, i)][s] = Empty
    <3>1. lock_ind(i) # l /\ lock[lock_ind(i)] = p
      BY <1>1, <2>6, LockTypes, ThreadsAssumption DEF MovesBuckets
    <3> QED
      BY <1>0, <1>1, <3>1, NewHalf DEF Doubling
  <2>7. (\A i \in Numbers(hp[p]) : \A s \in Slots : lock[lock_ind(i)] = p => bucket[New(p, i)][s] = Empty)'
    BY <1>2, <2>6 DEF New
  <2>8. Doubling(p)'
    BY <1>0, <1>2, <2>1, <2>5, <2>7 DEF Doubling, Doing
  <2> QED
    BY <2>2, <2>3, <2>8 DEF Mine
<1> QED
  BY <1>4, <1>5

LEMMA OwnMove ==
  ASSUME IndInv, NEW p \in Threads, cuckoopath_move(p)
  PROVE  Mine(p)'
<1>0. VarsOK /\ Calling(p) /\ Doubling(p) /\ pc[p] = "move" /\ Locking(p) /\ Searching(p)
  BY Own DEF cuckoopath_move
<1>1. UNCHANGED <<call, hp, want, goal, expansion_lock_, hashpower_>>
  BY DEF cuckoopath_move
<1>2. CASE ~CanMove(p)
  <2>1. Cuckoo(p)
    BY <1>2 DEF cuckoopath_move
  <2> QED
    BY <1>0, <1>1, <2>1, CuckooQuits
<1>3. CASE CanMove(p)
  <2> DEFINE m == Len(path[p]) - 1
  <2>1. /\ path[p] \in Seq(Records) /\ Len(path[p]) > 1 /\ Path(p) /\ Held(p) = MoveLocks(p)
        /\ want[p] = {} /\ goal[p] = "idle" /\ call[p].op = "put" /\ hp[p] = hashpower_
    <3>1. Path(p) /\ Len(path[p]) > 1 /\ Held(p) = MoveLocks(p) /\ call[p].op = "put"
      BY <1>0 DEF Searching, Doing, Locking, WithLocks, Needs, Calling
    <3>2. Held(p) # {}
      BY <3>1, MoveLocksSome
    <3> QED
      BY <1>0, <3>1, <3>2 DEF VarsOK, Locking, WithLocks
  <2>2. /\ m \in Nat \ {0} /\ m + 1 = Len(path[p])
        /\ path'[p] = SubSeq(path[p], 1, m) /\ Len(path'[p]) = m
        /\ \A n \in 1..m : path'[p][n] = path[p][n]
    BY <1>0, <1>3, <2>1 DEF cuckoopath_move, VarsOK
  <2> HIDE DEF m
  <2>3. Path(p)'
    <3>1. \A n \in 1..Len(path'[p]) : path'[p][n].bucket \in Numbers(hp[p])
      BY <2>1, <2>2 DEF Path
    <3>2. path'[p] # << >> /\ path'[p][1].bucket \in HomeSet(hp[p], Key(p))
      <4>1. 1 \in 1..m /\ path[p] # << >>
        BY <2>1, <2>2
      <4> QED
        BY <2>1, <2>2, <4>1 DEF Path
    <3>3. \A n \in 1..(Len(path'[p]) - 1) :
            /\ path'[p][n].key \in Keys
            /\ path'[p][n + 1].bucket = alt_index(hp[p], path'[p][n].key, path'[p][n].bucket)
      <4>1. \A n \in 1..(m - 1) : n \in 1..m /\ n + 1 \in 1..m /\ n \in 1..(Len(path[p]) - 1)
        BY <2>2
      <4> QED
        BY <2>1, <2>2, <4>1 DEF Path
    <3> QED
      BY <1>1, <3>1, <3>2, <3>3 DEF Path, HomeSet, Homes, Key, index_hash, alt_index
  <2>4. Doubling(p)'
    <3>1. pc'[p] \in {"add", "moves"}
      BY <1>0, <1>3 DEF cuckoopath_move, Goto, VarsOK
    <3> QED
      BY <1>0, <1>1, <2>1, <3>1 DEF Doubling, Doing
  <2>5. path'[p] # << >> /\ (m = 1 => Len(path'[p]) = 1)
    BY <2>2
  <2>6. CASE m = 1
    <3>1. /\ pc'[p] = "add" /\ Held(p)' = Held(p) \ (Locks \ LocksOf(HomeSet(hp[p], Key(p))))
      BY <1>0, <1>3, <2>2, <2>6, AfterRelease DEF cuckoopath_move, Goto, VarsOK
    <3>2. Held(p)' = LocksOf(HomeSet(hp[p], Key(p)))
      <4>1. MoveLocks(p) = LocksOf(HomeSet(hp[p], Key(p)) \cup {Last(p).bucket})
        BY <2>2, <2>6 DEF MoveLocks
      <4>2. LocksOf(HomeSet(hp[p], Key(p))) \subseteq MoveLocks(p) /\ Held(p) \subseteq Locks
        BY <4>1 DEF LocksOf, Held
      <4> QED
        BY <2>1, <3>1, <4>2
    <3>3. Needs(p, "add")' = LocksOf(HomeSet(hp[p], Key(p)))
      <4>1. Needs(p, "add")' = LocksOf(HomeSet(hp'[p], call'[p].key))
        BY <2>5, <2>6 DEF Needs, MoveLocks, Key
      <4> QED
        BY <1>1, <4>1 DEF Key
    <3>4. Calling(p)'
      BY <1>0, <1>1, <2>1, <3>1 DEF Calling, Doing
    <3>5. Locking(p)'
      BY <1>1, <2>1, <3>1, <3>2, <3>3 DEF Locking, WithLocks
    <3>6. Searching(p)'
      BY <2>2, <2>3, <2>5, <2>6, <3>1 DEF Searching, Doing
    <3> QED
      BY <2>4, <3>4, <3>5, <3>6 DEF Mine
  <2>7. CASE m # 1
    <3>0. Len(path[p]) # 2
      <4>1. \A n \in Nat \ {0} : n # 1 => n + 1 # 2
        OBVIOUS
      <4> QED
        BY <2>2, <2>7, <4>1
    <3>1. pc'[p] = "moves" /\ ReleaseSome(p, Locks)
      BY <1>0, <1>3, <3>0 DEF cuckoopath_move, Goto, VarsOK, Release
    <3>2. Held(p)' = {}
      <4>1. Held(p)' = Held(p) \ Locks
        BY <3>1, AfterRelease
      <4> QED
        BY <4>1 DEF Held
    <3>3. Calling(p)'
      BY <1>0, <1>1, <2>1, <3>1 DEF Calling, Doing
    <3>4. Locking(p)'
      BY <1>1, <2>1, <3>1, <3>2 DEF Locking, WithLocks
    <3>5. Searching(p)'
      BY <2>3, <2>5, <3>1 DEF Searching, Doing
    <3> QED
      BY <2>4, <3>3, <3>4, <3>5 DEF Mine
  <2> QED
    BY <2>6, <2>7
<1> QED
  BY <1>2, <1>3

LEMMA SearchTypes ==
  ASSUME IndInv, NEW p \in Threads, pc[p] = "search"
  PROVE  /\ q[p] \in Seq(BSlots) /\ Here(p) \in BSlots /\ Here(p).bucket \in Numbers(hp[p])
         /\ SlotOf(p) \in Slots /\ Len(q[p]) \in Nat \ {0} /\ hp[p] \in Nat
         /\ NextQueue(p, SlotOf(p)) \in Seq(BSlots) /\ Len(NextQueue(p, SlotOf(p))) \in Nat \ {0}
         /\ \A n \in 1..Len(NextQueue(p, SlotOf(p))) :
              NextQueue(p, SlotOf(p))[n].bucket \in Numbers(hp[p])
         /\ tried[p] \in Nat /\ tried[p] < SLOT_PER_BUCKET
<1>0. VarsOK /\ Searching(p) /\ SLOT_PER_BUCKET \in Nat \ {0}
  BY Own
<1>1. hp[p] \in Nat /\ Numbers(hp[p]) \subseteq SUBSET Nat
  <2>1. hp[p] \in Hashpowers \cup {0} /\ MaxHashpower + Cardinality(Keys) \in Nat
    BY <1>0, KeysAssumption, SizesAssumption, FS_CardinalityType DEF VarsOK
  <2>2. hp[p] \in Nat
    BY <2>1 DEF Hashpowers
  <2> QED
    BY <2>2 DEF Numbers, Bits
<1>2. /\ q[p] \in Seq(BSlots) /\ q[p] # << >> /\ tried[p] \in 0..SLOT_PER_BUCKET
      /\ tried[p] < SLOT_PER_BUCKET /\ \A n \in 1..Len(q[p]) : q[p][n].bucket \in Numbers(hp[p])
  BY <1>0 DEF VarsOK, Searching
<1>3. Len(q[p]) \in Nat \ {0} /\ Here(p) = q[p][1] /\ Here(p) \in BSlots
  BY <1>2, NotEmpty DEF Here
<1>4. Here(p).bucket \in Numbers(hp[p])
  BY <1>2, <1>3
<1>5. Here(p).slots \in Seq(Slots) /\ Here(p).from \in {1, 2}
  BY <1>3 DEF BSlots
<1>6. SlotOf(p) \in Slots
  <2> DEFINE first == IF Here(p).slots = << >> THEN Here(p).from - 1
                      ELSE Here(p).slots[Len(Here(p).slots)] - 1
  <2>1. first \in Nat
    <3>1. CASE Here(p).slots = << >>
      BY <1>5, <3>1
    <3>2. CASE Here(p).slots # << >>
      <4>1. Here(p).slots[Len(Here(p).slots)] \in Slots
        BY <1>5, <3>2, NotEmpty
      <4> QED
        BY <3>2, <4>1 DEF Slots
    <3> QED
      BY <3>1, <3>2
  <2>2. SlotOf(p) = ((first + tried[p]) % SLOT_PER_BUCKET) + 1
    BY DEF SlotOf
  <2> HIDE DEF first
  <2>3. first + tried[p] \in Nat
    BY <1>0, <1>2, <2>1
  <2>4. \A n \in Nat : (n % SLOT_PER_BUCKET) \in 0..(SLOT_PER_BUCKET - 1)
    BY <1>0
  <2> QED
    BY <1>0, <2>2, <2>3, <2>4 DEF Slots
<1> DEFINE s == SlotOf(p)
           long == Longer(p, s)
<1>7. long \in BSlots /\ long.bucket \in Numbers(hp[p])
  <2>1. long.bucket \in Numbers(hp[p]) /\ long = [bucket |-> long.bucket, from |-> Here(p).from,
                                                  slots |-> Append(Here(p).slots, s)]
    BY AltType DEF Longer
  <2> HIDE DEF long
  <2> QED
    BY <1>1, <1>5, <1>6, <2>1 DEF BSlots
<1> HIDE DEF long
<1>8. NextQueue(p, s) = Append(q[p], long) \/ NextQueue(p, s) = q[p]
  BY DEF NextQueue, long
<1>9. CASE NextQueue(p, s) = q[p]
  BY <1>0, <1>1, <1>2, <1>3, <1>4, <1>6, <1>9
<1>10. CASE NextQueue(p, s) = Append(q[p], long)
  <2>1. /\ Append(q[p], long) \in Seq(BSlots) /\ Len(Append(q[p], long)) = Len(q[p]) + 1
        /\ \A n \in 1..(Len(q[p]) + 1) : Append(q[p], long)[n] = IF n = Len(q[p]) + 1 THEN long ELSE q[p][n]
    BY <1>2, <1>7
  <2>2. \A n \in 1..(Len(q[p]) + 1) : n = Len(q[p]) + 1 \/ n \in 1..Len(q[p])
    BY <1>3
  <2>3. \A n \in 1..(Len(q[p]) + 1) : Append(q[p], long)[n].bucket \in Numbers(hp[p])
    BY <1>2, <1>7, <2>1, <2>2
  <2>4. Len(q[p]) + 1 \in Nat \ {0}
    BY <1>3
  <2> QED
    BY <1>0, <1>1, <1>2, <1>3, <1>4, <1>6, <1>10, <2>1, <2>3, <2>4
<1> QED
  BY <1>8, <1>9, <1>10

LEMMA OwnSearch ==
  ASSUME IndInv, NEW p \in Threads, slot_search(p)
  PROVE  Mine(p)' /\ q' \in [Threads -> Seq(BSlots)] /\ tried' \in [Threads -> 0..SLOT_PER_BUCKET]
<1>0. /\ VarsOK /\ Calling(p) /\ Doubling(p) /\ pc[p] = "search" /\ Locking(p) /\ Searching(p)
      /\ SLOT_PER_BUCKET \in Nat \ {0}
  BY Own DEF slot_search
<1> DEFINE s == SlotOf(p)
           more == NextQueue(p, s)
           last == tried[p] + 1 = SLOT_PER_BUCKET
           long == [Here(p) EXCEPT !.slots = Append(@, s)]
<1>1. /\ UNCHANGED <<call, want, goal, hp, path, lock, hashpower_, expansion_lock_>>
      /\ Held(p)' = {} /\ want[p] = {} /\ goal[p] = "idle" /\ call[p].op = "put"
  BY <1>0, NoLocks DEF slot_search, table, WithLocks, Calling, Doing
<1>2. /\ more \in Seq(BSlots) /\ Len(more) \in Nat \ {0} /\ tried[p] \in Nat /\ tried[p] < SLOT_PER_BUCKET
      /\ \A n \in 1..Len(more) : more[n].bucket \in Numbers(hp[p])
  BY <1>0, SearchTypes
<1>3. long \in BSlots /\ Len(long.slots) > 0
  <2>1. Here(p) \in BSlots /\ s \in Slots
    BY <1>0, SearchTypes
  <2>2. Here(p).slots \in Seq(Slots) /\ long = [bucket |-> Here(p).bucket, from |-> Here(p).from,
                                               slots |-> Append(Here(p).slots, s)]
    BY <2>1 DEF BSlots
  <2>3. Append(Here(p).slots, s) \in Seq(Slots) /\ Len(Append(Here(p).slots, s)) > 0
    BY <2>1, <2>2
  <2> QED
    BY <2>1, <2>2, <2>3 DEF BSlots
<1> HIDE DEF long, more, s
<1>4. \/ pc' = [pc EXCEPT ![p] = "snapshot"] /\ q' = [q EXCEPT ![p] = << >>] /\ tried' = [tried EXCEPT ![p] = 0]
      \/ pc' = [pc EXCEPT ![p] = "full"] /\ q' = [q EXCEPT ![p] = << >>] /\ tried' = [tried EXCEPT ![p] = 0]
      \/ pc' = [pc EXCEPT ![p] = "path"] /\ q' = [q EXCEPT ![p] = <<long>>] /\ tried' = [tried EXCEPT ![p] = 0]
      \/ /\ pc' = pc /\ ~(last /\ Len(more) = 1)
         /\ q' = [q EXCEPT ![p] = IF last THEN Tail(more) ELSE more]
         /\ tried' = [tried EXCEPT ![p] = IF last THEN 0 ELSE @ + 1]
  BY DEF slot_search, StartOver, Goto, long, more, s
<1>5. CASE \/ pc' = [pc EXCEPT ![p] = "snapshot"] /\ q' = [q EXCEPT ![p] = << >>] /\ tried' = [tried EXCEPT ![p] = 0]
           \/ pc' = [pc EXCEPT ![p] = "full"] /\ q' = [q EXCEPT ![p] = << >>] /\ tried' = [tried EXCEPT ![p] = 0]
  <2>1. Quits(p, "snapshot") \/ Quits(p, "full")
    BY <1>0, <1>1, <1>5 DEF Quits
  <2>2. Mine(p)'
    BY <2>1, QuitsMine
  <2>3. << >> \in Seq(BSlots) /\ 0 \in 0..SLOT_PER_BUCKET
    BY <1>0
  <2>4. q' \in [Threads -> Seq(BSlots)] /\ tried' \in [Threads -> 0..SLOT_PER_BUCKET]
    <3>1. q' = [q EXCEPT ![p] = << >>] /\ tried' = [tried EXCEPT ![p] = 0]
      BY <1>5
    <3> QED
      BY <1>0, <2>3, <3>1 DEF VarsOK
  <2> QED
    BY <2>2, <2>4
<1>6. CASE pc' = [pc EXCEPT ![p] = "path"] /\ q' = [q EXCEPT ![p] = <<long>>] /\ tried' = [tried EXCEPT ![p] = 0]
  <2>1. pc'[p] = "path" /\ q'[p] = <<long>>
    BY <1>0, <1>6 DEF VarsOK
  <2>2. Calling(p)' /\ Doubling(p)'
    BY <1>0, <1>1, <2>1 DEF Calling, Doubling, Doing
  <2>3. Locking(p)'
    BY <1>1, <2>1 DEF Locking, WithLocks
  <2>4. path'[p] = << >> /\ Head(q'[p]) = long
    BY <1>0, <1>1, <2>1 DEF Searching
  <2>5. Path(p)'
    BY <2>4 DEF Path
  <2>6. Searching(p)'
    BY <1>3, <2>1, <2>4, <2>5 DEF Searching, Doing, Here
  <2>7. <<long>> \in Seq(BSlots)
    BY <1>3
  <2>8. q' \in [Threads -> Seq(BSlots)] /\ tried' \in [Threads -> 0..SLOT_PER_BUCKET]
    BY <1>0, <1>6, <2>7 DEF VarsOK
  <2> QED
    BY <2>2, <2>3, <2>6, <2>8 DEF Mine
<1>7. CASE /\ pc' = pc /\ ~(last /\ Len(more) = 1)
           /\ q' = [q EXCEPT ![p] = IF last THEN Tail(more) ELSE more]
           /\ tried' = [tried EXCEPT ![p] = IF last THEN 0 ELSE @ + 1]
  <2>1. /\ pc'[p] = "search" /\ q'[p] = (IF last THEN Tail(more) ELSE more)
        /\ tried'[p] = (IF last THEN 0 ELSE tried[p] + 1)
    BY <1>0, <1>7 DEF VarsOK
  <2>2. Calling(p)' /\ Doubling(p)'
    BY <1>0, <1>1, <2>1 DEF Calling, Doubling, Doing
  <2>3. Locking(p)'
    BY <1>1, <2>1 DEF Locking, WithLocks
  <2>4. tried'[p] < SLOT_PER_BUCKET /\ tried'[p] \in 0..SLOT_PER_BUCKET
    BY <1>0, <1>2, <2>1
  <2>5. /\ q'[p] \in Seq(BSlots) /\ q'[p] # << >>
        /\ \A n \in 1..Len(q'[p]) : q'[p][n].bucket \in Numbers(hp[p])
    <3>1. CASE ~last
      BY <1>2, <2>1, <3>1
    <3>2. CASE last
      <4>1. /\ Len(more) \in Nat /\ Len(more) > 1 /\ q'[p] = Tail(more)
        <5>1. \A n \in Nat \ {0} : n # 1 => n \in Nat /\ n > 1
          OBVIOUS
        <5> QED
          BY <1>2, <1>7, <2>1, <3>2, <5>1
      <4> QED
        BY <1>2, <4>1, LongTail
    <3> QED
      BY <3>1, <3>2
  <2>6. path'[p] = << >>
    BY <1>0, <1>1 DEF Searching
  <2>7. Searching(p)'
    BY <1>1, <2>1, <2>4, <2>5, <2>6 DEF Searching, Doing
  <2>8. q' \in [Threads -> Seq(BSlots)] /\ tried' \in [Threads -> 0..SLOT_PER_BUCKET]
    BY <1>0, <1>7, <2>1, <2>4, <2>5 DEF VarsOK
  <2> QED
    BY <2>2, <2>3, <2>7, <2>8 DEF Mine
<1> QED
  BY <1>4, <1>5, <1>6, <1>7

LEMMA OwnPath ==
  ASSUME IndInv, NEW p \in Threads, cuckoopath_search(p)
  PROVE  Mine(p)' /\ q' \in [Threads -> Seq(BSlots)] /\ path' \in [Threads -> Seq(Records)]
<1>0. /\ VarsOK /\ Calling(p) /\ Doubling(p) /\ pc[p] = "path" /\ Locking(p) /\ Searching(p)
      /\ hp[p] \in Nat
  <2>1. VarsOK /\ Calling(p) /\ Doubling(p) /\ pc[p] = "path" /\ Locking(p) /\ Searching(p)
    BY Own DEF cuckoopath_search
  <2>2. hp[p] \in 1..MaxHashpower /\ MaxHashpower \in Nat
    BY <2>1, SizesAssumption DEF Calling
  <2> QED
    BY <2>1, <2>2
<1> DEFINE n == Len(path[p]) + 1
           s == Here(p).slots[n]
           i == PathBucket(p)
           k == bucket[i][s].key
           new == [bucket |-> i, slot |-> s, key |-> k]
<1>1. /\ UNCHANGED <<call, want, goal, hp, tried, lock, hashpower_, expansion_lock_>>
      /\ Held(p)' = {} /\ want[p] = {} /\ goal[p] = "idle" /\ call[p].op = "put"
  BY <1>0, NoLocks DEF cuckoopath_search, table, WithLocks, Calling, Doing
<1>2. CASE hashpower_ # hp[p]
  <2>1. /\ pc' = [pc EXCEPT ![p] = "snapshot"] /\ q' = [q EXCEPT ![p] = << >>]
        /\ path' = [path EXCEPT ![p] = << >>]
    BY <1>2 DEF cuckoopath_search, StartOver, Goto
  <2>2. Quits(p, "snapshot")
    BY <1>0, <1>1, <2>1 DEF Quits
  <2> QED
    BY <1>0, <2>1, <2>2, QuitsMine DEF VarsOK
<1>3. CASE hashpower_ = hp[p]
  <2>1. /\ path' = [path EXCEPT ![p] = Append(@, new)]
        /\ \/ /\ k = None \/ n = Len(Here(p).slots)
              /\ pc' = [pc EXCEPT ![p] = "moves"] /\ q' = [q EXCEPT ![p] = << >>]
           \/ /\ ~(k = None \/ n = Len(Here(p).slots))
              /\ pc' = pc /\ q' = q
    BY <1>3 DEF cuckoopath_search, Goto
  <2>2. /\ path[p] \in Seq(Records) /\ q[p] \in Seq(BSlots) /\ q[p] # << >> /\ Path(p)
        /\ Len(path[p]) \in Nat /\ Len(path[p]) < Len(Here(p).slots)
        /\ \A m \in 1..Len(path[p]) : path[p][m].key \in Keys
    BY <1>0 DEF VarsOK, Searching, Doing
  <2>3. Here(p).slots \in Seq(Slots) /\ Here(p).from \in {1, 2} /\ Len(Here(p).slots) \in Nat
    <3>1. Here(p) \in BSlots
      BY <2>2, NotEmpty DEF Here
    <3>2. Here(p).slots \in Seq(Slots) /\ Here(p).from \in {1, 2}
      BY <3>1 DEF BSlots
    <3> QED
      BY <3>2
  <2>4. n \in 1..Len(Here(p).slots) /\ s \in Slots
    BY <2>2, <2>3
  <2>5. i \in Numbers(hp[p]) /\ i \in SUBSET Nat
    <3>1. i \in Numbers(hp[p])
      BY <2>3, HomesType, AltType DEF PathBucket, B
    <3> QED
      BY <1>0, <3>1 DEF Numbers, Bits
  <2>6. k \in Keys \cup {None} /\ new \in Records
    <3>1. bucket[i][s] \in Entry \cup {Empty}
      BY <1>3, <2>4, <2>5, Table
    <3>2. k \in Keys \cup {None}
      BY <3>1, Table
    <3> QED
      BY <2>4, <2>5, <3>2 DEF Records
  <2>7. i = (IF path[p] = << >> THEN B(p)[Here(p).from]
             ELSE alt_index(hp[p], path[p][Len(path[p])].key, path[p][Len(path[p])].bucket))
    BY DEF PathBucket
  <2>8. new.bucket = i /\ new.key = k
    OBVIOUS
  <2> HIDE DEF new, i, k, s
  <2>9. /\ path'[p] = Append(path[p], new) /\ path'[p] \in Seq(Records) /\ Len(path'[p]) = n
        /\ \A m \in 1..n : path'[p][m] = IF m = n THEN new ELSE path[p][m]
        /\ path'[p] # << >>
    <3>1. path'[p] = Append(path[p], new)
      BY <1>0, <2>1 DEF VarsOK
    <3> QED
      BY <2>2, <2>6, <3>1, Appended
  <2>10. \A m \in 1..n : m = n \/ m \in 1..Len(path[p])
    BY <2>2
  <2>11. \A m \in 1..n : path'[p][m].bucket \in Numbers(hp[p])
    BY <2>2, <2>5, <2>8, <2>9, <2>10 DEF Path
  <2>12. path'[p][1].bucket \in HomeSet(hp[p], Key(p))
    <3>1. CASE path[p] = << >>
      <4>1. n = 1 /\ i = B(p)[Here(p).from]
        BY <2>7, <3>1
      <4> QED
        BY <2>3, <2>8, <2>9, <4>1, HomesType DEF B
    <3>2. CASE path[p] # << >>
      <4>1. 1 \in 1..n /\ 1 # n
        BY <2>2, <3>2, NotEmpty
      <4> QED
        BY <2>2, <2>9, <3>2, <4>1 DEF Path
    <3> QED
      BY <3>1, <3>2
  <2>13. \A m \in 1..(n - 1) :
           /\ path'[p][m].key \in Keys
           /\ path'[p][m + 1].bucket = alt_index(hp[p], path'[p][m].key, path'[p][m].bucket)
    <3> SUFFICES ASSUME NEW m \in 1..(n - 1)
                 PROVE  /\ path'[p][m].key \in Keys
                        /\ path'[p][m + 1].bucket = alt_index(hp[p], path'[p][m].key, path'[p][m].bucket)
      OBVIOUS
    <3>1. m \in 1..Len(path[p]) /\ m \in 1..n /\ m # n /\ m + 1 \in 1..n /\ path'[p][m] = path[p][m]
      BY <2>2, <2>9
    <3>2. CASE m = Len(path[p])
      <4>1. path[p] # << >> /\ m + 1 = n
        BY <3>1, <3>2
      <4> QED
        BY <2>2, <2>7, <2>8, <2>9, <3>1, <3>2, <4>1
    <3>3. CASE m # Len(path[p])
      <4>1. m \in 1..(Len(path[p]) - 1) /\ m + 1 # n
        BY <2>2, <3>1, <3>3
      <4> QED
        BY <2>2, <2>9, <3>1, <4>1 DEF Path
    <3> QED
      BY <3>2, <3>3
  <2> DEFINE l == n
  <2>14. Path(p)'
    BY <1>1, <2>9, <2>11, <2>12, <2>13 DEF Path, HomeSet, Homes, Key, index_hash, alt_index
  <2>15. path' \in [Threads -> Seq(Records)]
    BY <1>0, <2>1, <2>2, <2>6 DEF VarsOK
  <2>16. CASE k = None \/ n = Len(Here(p).slots)
    <3>0. << >> \in Seq(BSlots)
      OBVIOUS
    <3>1. pc'[p] = "moves" /\ q' \in [Threads -> Seq(BSlots)]
      BY <1>0, <2>1, <2>16, <3>0 DEF VarsOK
    <3>2. Calling(p)' /\ Doubling(p)'
      BY <1>0, <1>1, <3>1 DEF Calling, Doubling, Doing
    <3>3. Locking(p)' /\ Searching(p)'
      BY <1>1, <2>9, <2>14, <3>1 DEF Locking, WithLocks, Searching, Doing
    <3> QED
      BY <2>15, <3>1, <3>2, <3>3 DEF Mine
  <2>17. CASE ~(k = None \/ n = Len(Here(p).slots))
    <3>1. pc'[p] = "path" /\ q' = q /\ q' \in [Threads -> Seq(BSlots)]
      BY <1>0, <2>1, <2>17 DEF VarsOK
    <3>2. Calling(p)' /\ Doubling(p)'
      BY <1>0, <1>1, <3>1 DEF Calling, Doubling, Doing
    <3>3. n < Len(Here(p).slots) /\ \A m \in 1..n : path'[p][m].key \in Keys
      BY <2>2, <2>3, <2>4, <2>6, <2>8, <2>9, <2>10, <2>17
    <3>4. Locking(p)'
      BY <1>1, <3>1 DEF Locking, WithLocks
    <3>5. Searching(p)'
      BY <2>2, <2>9, <2>14, <3>1, <3>3 DEF Searching, Doing, Here
    <3> QED
      BY <2>15, <3>1, <3>2, <3>4, <3>5 DEF Mine
  <2> QED
    BY <2>16, <2>17
<1> QED
  BY <1>2, <1>3
-----------------------------------------------------------------------------
(* Types.                                                                   *)
LEMMA LocksOfType ==
  ASSUME NEW is
  PROVE  LocksOf(is) \subseteq Locks
BY LockTypes DEF LocksOf

LEMMA HashpowerTypes ==
  1..MaxHashpower \subseteq Hashpowers /\ Hashpowers \subseteq Nat /\ MaxHashpower \in Nat
<1>1. MaxHashpower \in Nat /\ Cardinality(Keys) \in Nat
  BY SizesAssumption, KeysAssumption, FS_CardinalityType
<1> QED
  BY <1>1 DEF Hashpowers

LEMMA ControlTypes ==
  ASSUME IndInv, NEW p \in Threads, Invoke(p) \/ Work(p)
  PROVE  /\ pc' \in [Threads -> Labels] /\ goal' \in [Threads -> Labels]
         /\ want' \in [Threads -> SUBSET Locks] /\ expansion_lock_' \in Threads \cup {None}
<1>0. /\ pc \in [Threads -> Labels] /\ goal \in [Threads -> Labels] /\ want \in [Threads -> SUBSET Locks]
      /\ expansion_lock_ \in Threads \cup {None} /\ call[p].op \in Labels \cup {"rehash"}
  BY DEF IndInv, VarsOK, Labels, Calls, MapCalls, Idle
<1>1. CASE Invoke(p) \/ find(p) \/ erase(p) \/ Throws(p) \/ Return(p)
  BY <1>0, <1>1 DEF Invoke, find, erase, Throws, Return, Goto, Labels, table, locals
<1>2. CASE Snapshot(p)
  <2>1. LocksOf(HomeSet(hashpower_, Key(p))) \subseteq Locks
    BY LocksOfType
  <2> QED
    BY <1>0, <1>2, <2>1 DEF Snapshot, LockThen, Goto, Labels, table
<1>3. CASE TakeLock(p)
  <2>1. goal[p] \in Labels /\ want[p] \in SUBSET Locks
    BY <1>0
  <2> QED
    BY <1>0, <1>3, <2>1 DEF TakeLock, Goto, Labels
<1>4. CASE cuckoo_insert(p) \/ AddToFreed(p) \/ cuckoopath_move(p)
  BY <1>0, <1>4 DEF cuckoo_insert, AddToFreed, cuckoopath_move, Cuckoo, Goto, Labels
<1>5. CASE slot_search(p) \/ cuckoopath_search(p)
  BY <1>0, <1>5 DEF slot_search, cuckoopath_search, StartOver, Goto, Labels, table
<1>6. CASE PrepareMove(p)
  <2>1. MoveLocks(p) \subseteq Locks
    BY LocksOfType DEF MoveLocks
  <2> QED
    BY <1>0, <1>6, <2>1 DEF PrepareMove, LockThen, Goto, Labels, table
<1>7. CASE BeginDouble(p) \/ Double(p) \/ move_buckets(p)
  BY <1>0, <1>7 DEF BeginDouble, Double, move_buckets, LockThen, StartOver, Goto, Labels, locals
<1> QED
  BY <1>1, <1>2, <1>3, <1>4, <1>5, <1>6, <1>7, Kinds

LEMMA FindValue ==
  ASSUME IndInv, NEW p \in Threads, find(p)
  PROVE  ret' \in [Threads -> Vals \cup {None}]
<1>1. pc[p] = "get" /\ ret \in [Threads -> Vals \cup {None}]
  BY DEF find, IndInv, VarsOK
<1> DEFINE v == IF Found(p) = {} THEN None ELSE At(CHOOSE pl \in Found(p) : TRUE).val
<1>2. v \in Vals \cup {None}
  <2>1. Found(p) # {} => (CHOOSE pl \in Found(p) : TRUE) \in Found(p)
    OBVIOUS
  <2>2. \A e \in Entry : e.val \in Vals
    BY Table
  <2> QED
    BY <1>1, <2>1, <2>2, FoundPlaces
<1>3. ret' = [ret EXCEPT ![p] = v]
  BY DEF find
<1> HIDE DEF v
<1> QED
  BY <1>1, <1>2, <1>3

LEMMA ValueTypes ==
  ASSUME IndInv, NEW p \in Threads, Invoke(p) \/ Work(p)
  PROVE  ret' \in [Threads -> Vals \cup {None}]
<1>0. ret \in [Threads -> Vals \cup {None}]
  BY DEF IndInv, VarsOK
<1>1. ASSUME NEW pl, Adding(p, pl) PROVE ret' \in [Threads -> Vals \cup {None}]
  BY <1>0, <1>1 DEF Adding
<1>2. CASE ret' = ret
  BY <1>0, <1>2
<1>3. CASE cuckoo_insert(p) \/ AddToFreed(p)
  BY <1>1, <1>2, <1>3, InsertEffect, AddEffect
<1>4. CASE erase(p)
  <2>1. ASSUME NEW pl, Removes(p, pl) PROVE ret' \in [Threads -> Vals \cup {None}]
    <3>1. At(pl) \in Entry
      BY <2>1, FoundPlaces DEF Removes
    <3>2. At(pl).val \in Vals
      BY <3>1, Table
    <3> QED
      BY <1>0, <2>1, <3>2 DEF Removes
  <2> QED
    BY <1>2, <1>4, <2>1, EraseEffect
<1>5. CASE Return(p)
  BY <1>0, <1>5 DEF Return
<1>6. CASE cuckoopath_move(p)
  BY <1>2, <1>6 DEF cuckoopath_move
<1>7. CASE \/ Invoke(p) \/ Snapshot(p) \/ TakeLock(p) \/ slot_search(p) \/ cuckoopath_search(p)
           \/ PrepareMove(p) \/ Throws(p) \/ BeginDouble(p) \/ Double(p) \/ move_buckets(p)
  BY <1>2, <1>7 DEF Invoke, Snapshot, TakeLock, slot_search, cuckoopath_search, PrepareMove, Throws,
     BeginDouble, Double, move_buckets, locals
<1> QED
  BY <1>3, <1>4, <1>5, <1>6, <1>7, FindValue, Kinds

LEMMA CallTypes ==
  ASSUME IndInv, OnlyMapCalls, NEW p \in Threads, Invoke(p) \/ Work(p)
  PROVE  /\ call' \in [Threads -> Calls \cup {Idle}] /\ puts' \in 0..MaxPuts
         /\ hp' \in [Threads -> Hashpowers \cup {0}]
<1>0. /\ call \in [Threads -> Calls \cup {Idle}] /\ puts \in 0..MaxPuts
      /\ hp \in [Threads -> Hashpowers \cup {0}] /\ hashpower_ \in Hashpowers
  BY DEF IndInv, VarsOK
<1>1. CASE Invoke(p)
  <2>1. hp' = hp
    BY <1>1 DEF Invoke, locals
  <2> QED
    BY <1>0, <1>1, <2>1, OwnInvoke DEF Calls
<1>2. CASE Return(p)
  BY <1>0, <1>2 DEF Return
<1>3. CASE Snapshot(p)
  BY <1>0, <1>3 DEF Snapshot
<1>4. CASE \/ TakeLock(p) \/ find(p) \/ erase(p) \/ cuckoo_insert(p) \/ slot_search(p)
           \/ cuckoopath_search(p) \/ PrepareMove(p) \/ cuckoopath_move(p) \/ AddToFreed(p)
           \/ Throws(p) \/ BeginDouble(p) \/ Double(p) \/ move_buckets(p)
  BY <1>0, <1>4 DEF TakeLock, find, erase, cuckoo_insert, slot_search, cuckoopath_search, PrepareMove,
     cuckoopath_move, AddToFreed, Throws, BeginDouble, Double, move_buckets, locals
<1> QED
  BY <1>1, <1>2, <1>3, <1>4, Kinds

LEMMA StartType ==
  ASSUME IndInv, NEW p \in Threads
  PROVE  Start(p) \in Seq(BSlots)
<1>1. hp[p] \in Nat
  <2>1. hp[p] \in Hashpowers \cup {0}
    BY DEF IndInv, VarsOK
  <2>2. Hashpowers \subseteq Nat
    BY HashpowerTypes
  <2>3. 0 \in Nat
    OBVIOUS
  <2> QED
    BY <2>1, <2>2, <2>3
<1>2. B(p)[1] \in SUBSET Nat /\ B(p)[2] \in SUBSET Nat
  <2>1. Numbers(hp[p]) \subseteq SUBSET Nat
    BY <1>1 DEF Numbers, Bits
  <2> QED
    BY <2>1, HomesType DEF B
<1>3. << >> \in Seq(Slots)
  OBVIOUS
<1> DEFINE e(n) == [bucket |-> B(p)[n], from |-> n, slots |-> << >>]
<1>4. e(1) \in BSlots /\ e(2) \in BSlots
  BY <1>2, <1>3 DEF BSlots
<1>5. Start(p) = <<e(1), e(2)>>
  BY DEF Start
<1> HIDE DEF e
<1> QED
  BY <1>4, <1>5

LEMMA PathTypes ==
  ASSUME IndInv, NEW p \in Threads, Invoke(p) \/ Work(p)
  PROVE  /\ q' \in [Threads -> Seq(BSlots)] /\ tried' \in [Threads -> 0..SLOT_PER_BUCKET]
         /\ path' \in [Threads -> Seq(Records)]
<1>0. /\ q \in [Threads -> Seq(BSlots)] /\ tried \in [Threads -> 0..SLOT_PER_BUCKET]
      /\ path \in [Threads -> Seq(Records)] /\ << >> \in Seq(Records) /\ 0 \in 0..SLOT_PER_BUCKET
  <2>1. 0 \in 0..SLOT_PER_BUCKET
    BY SizesAssumption
  <2> QED
    BY <2>1 DEF IndInv, VarsOK
<1>1. CASE UNCHANGED <<q, tried, path>>
  BY <1>0, <1>1
<1>2. CASE Cuckoo(p)
  BY <1>0, <1>2, StartType DEF Cuckoo
<1>3. CASE slot_search(p)
  BY <1>0, <1>3, OwnSearch DEF slot_search
<1>4. CASE cuckoopath_search(p)
  BY <1>0, <1>4, OwnPath DEF cuckoopath_search
<1>5. CASE cuckoopath_move(p)
  <2>1. CASE ~CanMove(p)
    BY <1>2, <1>5, <2>1 DEF cuckoopath_move
  <2>2. CASE CanMove(p)
    <3>1. path[p] \in Seq(Records) /\ Len(path[p]) > 1
      BY <1>0, <1>5 DEF cuckoopath_move, IndInv, Searching, Doing
    <3>2. SubSeq(path[p], 1, Len(path[p]) - 1) \in Seq(Records)
      BY <3>1
    <3> QED
      BY <1>0, <1>5, <2>2, <3>2 DEF cuckoopath_move
  <2> QED
    BY <2>1, <2>2
<1>6. CASE cuckoo_insert(p) \/ AddToFreed(p)
  BY <1>1, <1>2, <1>6 DEF cuckoo_insert, AddToFreed
<1>7. CASE Return(p)
  BY <1>0, <1>7 DEF Return
<1>8. CASE \/ Invoke(p) \/ Snapshot(p) \/ TakeLock(p) \/ find(p) \/ erase(p) \/ PrepareMove(p)
           \/ Throws(p) \/ BeginDouble(p) \/ Double(p) \/ move_buckets(p)
  BY <1>1, <1>8 DEF Invoke, Snapshot, TakeLock, find, erase, PrepareMove, Throws, BeginDouble, Double,
     move_buckets, locals
<1> QED
  BY <1>3, <1>4, <1>5, <1>6, <1>7, <1>8, Kinds

LEMMA VarsStay ==
  ASSUME IndInv, OnlyMapCalls, UNCHANGED work, NEW p \in Threads, Invoke(p) \/ Work(p), TableOK'
  PROVE  VarsOK'
<1>1. work' \in Workloads
  BY DEF IndInv, VarsOK
<1>2. /\ hashpower_' \in Hashpowers
      /\ \E n \in Hashpowers : bucket' \in [Numbers(n) -> [Slots -> Entry \cup {Empty}]]
  BY HashpowerTypes DEF TableOK
<1> QED
  BY <1>1, <1>2, ControlTypes, ValueTypes, CallTypes, PathTypes, LocksStay DEF VarsOK
-----------------------------------------------------------------------------
LEMMA OwnStays ==
  ASSUME IndInv, OnlyMapCalls, NEW p \in Threads, Invoke(p) \/ Work(p)
  PROVE  Mine(p)'
BY Kinds, OwnSimple, OwnInvoke, OwnReturn, OwnSnapshot, OwnTakeLock, OwnPrepareMove, OwnBeginDouble,
   OwnDouble, OwnMoveBuckets, OwnMove, OwnSearch, OwnPath

LEMMA SoundStays ==
  ASSUME IndInv, NEW p \in Threads, Invoke(p) \/ Work(p)
  PROVE  UniqueKeys' /\ InPlace' /\ TableOK'
BY SoundAfterDouble, SoundAfterMigrate, SoundOtherwise

LEMMA Step ==
  ASSUME IndInv, OnlyMapCalls, UNCHANGED work, NEW p \in Threads, Invoke(p) \/ Work(p)
  PROVE  IndInv'
<1>1. UniqueKeys' /\ InPlace' /\ TableOK' /\ VarsOK'
  BY SoundStays, VarsStay
<1>2. ASSUME NEW r \in Threads
      PROVE  Calling(r)' /\ Locking(r)' /\ Searching(r)' /\ Doubling(r)'
  BY OwnStays, OthersLocking, OthersDoubling DEF Mine
<1> QED
  BY <1>1, <1>2 DEF IndInv

LEMMA Start0 ==
  ASSUME Init
  PROVE  IndInv
<1>0. /\ MinHashpower \in 1..MaxHashpower /\ MaxHashpower \in Nat /\ None \notin Threads
      /\ MaxPuts \in Nat /\ SLOT_PER_BUCKET \in Nat \ {0} /\ None \notin Keys
  BY SizesAssumption, ThreadsAssumption, KeysAssumption DEF None
<1>1. TableOK
  BY <1>0 DEF Init, TableOK, NoBuckets
<1>2. \A i \in Numbers(MinHashpower) : \A s \in Slots : bucket[i][s] = Empty
  BY DEF Init, NoBuckets
<1>3. Entries = {}
  BY <1>1, <1>2 DEF Init, TableOK, Entries, At
<1>4. UniqueKeys /\ InPlace
  BY <1>3 DEF UniqueKeys, InPlace
<1>5. << >> \in Seq(BSlots) /\ << >> \in Seq(Records)
  OBVIOUS
<1>6. VarsOK
  BY <1>0, <1>1, <1>5, HashpowerTypes DEF Init, VarsOK, TableOK, Labels
<1>7. ASSUME NEW p \in Threads PROVE Calling(p) /\ Locking(p) /\ Searching(p) /\ Doubling(p)
  <2>1. /\ pc[p] = "idle" /\ goal[p] = "idle" /\ want[p] = {} /\ call[p] = Idle /\ Held(p) = {}
        /\ expansion_lock_ # p
    BY <1>0, <1>7 DEF Init, Held
  <2> QED
    BY <2>1 DEF Calling, Locking, Searching, Doubling, Doing, WithLocks, Idle
<1> QED
  BY <1>1, <1>4, <1>6, <1>7 DEF IndInv

LEMMA Stutter ==
  ASSUME IndInv, UNCHANGED vars
  PROVE  IndInv'
<1> USE DEF vars, state, table, locals
<1>1. VarsOK' /\ TableOK'
  BY DEF IndInv, VarsOK, TableOK
<1>2. UniqueKeys' /\ InPlace'
  BY DEF IndInv, UniqueKeys, InPlace, Entries, At, Reachable, Migrating
<1>3. ASSUME NEW p \in Threads PROVE Calling(p)' /\ Locking(p)' /\ Searching(p)' /\ Doubling(p)'
  <2>1. Calling(p) /\ Locking(p) /\ Searching(p) /\ Doubling(p)
    BY DEF IndInv
  <2>2. Path(p)' = Path(p) /\ (\A l : Needs(p, l)' = Needs(p, l)) /\ Held(p)' = Held(p)
    BY SameNeeds DEF Held
  <2>3. Calling(p)'
    BY <2>1 DEF Calling, Doing
  <2>4. Locking(p)'
    BY <2>1, <2>2 DEF Locking
  <2>5. Searching(p)'
    BY <2>1, <2>2 DEF Searching, Doing, Here
  <2>6. OldLocks(p)' = OldLocks(p) /\ \A i : New(p, i)' = New(p, i)
    BY <2>2 DEF OldLocks, New
  <2>7. Doubling(p)'
    BY <2>1, <2>6 DEF Doubling, Doing
  <2> QED
    BY <2>3, <2>4, <2>5, <2>7
<1> QED
  BY <1>1, <1>2, <1>3 DEF IndInv

LEMMA WorkloadStays == OnlyMapCalls /\ [Next]_vars => OnlyMapCalls'
BY DEF OnlyMapCalls, Next, vars

(* As long as the workload calls no rehash, the locks, places, paths and   *)
(* doublings fit together: whoever has locks works for hashpower_.          *)
THEOREM Invariance == Spec /\ OnlyMapCalls => []IndInv
<1>1. Init => IndInv
  BY Start0
<1>2. OnlyMapCalls /\ IndInv /\ [Next]_vars => IndInv'
  BY Step, Stutter DEF Next
<1> QED
  BY <1>1, <1>2, WorkloadStays, PTL DEF Spec

(* The same, said of every workload.                                        *)
THEOREM WithoutRehash == Spec => []SoundWithoutRehash
<1>1. Init => IndInv
  BY Start0
<1>2. SoundWithoutRehash /\ [Next]_vars => SoundWithoutRehash'
  <2> SUFFICES ASSUME SoundWithoutRehash, [Next]_vars, OnlyMapCalls' PROVE IndInv'
    BY DEF SoundWithoutRehash
  <2>1. OnlyMapCalls
    BY DEF OnlyMapCalls, Next, vars
  <2>2. IndInv
    BY <2>1 DEF SoundWithoutRehash
  <2> QED
    BY <2>1, <2>2, Step, Stutter DEF Next
<1>3. IndInv => SoundWithoutRehash
  BY DEF SoundWithoutRehash
<1> QED
  BY <1>1, <1>2, <1>3, PTL DEF Spec

LEMMA TypesFollow ==
  ASSUME IndInv
  PROVE  TypeOK
<1> SUFFICES ASSUME NEW p \in Threads
             PROVE  /\ pc[p] = "lock" <=> want[p] # {}
                    /\ Held(p) # {} => pc[p] \in {"lock", "get", "put", "remove", "rehash", "move", "add",
                                                   "double", "migrate"}
                    /\ expansion_lock_ = p <=> pc[p] \in {"double", "migrate"} \/ goal[p] = "double"
  BY DEF IndInv, TypeOK
<1>1. Locking(p) /\ Doubling(p)
  BY DEF IndInv
<1> QED
  BY <1>1 DEF Locking, Doubling, Doing, WithLocks

(* Every variable keeps its type, who has a lock is at a step that needs it, *)
(* and who has expansion_lock_ is doubling the table.                       *)
THEOREM TypeInvariance == Spec /\ OnlyMapCalls => []TypeOK
BY Invariance, TypesFollow, PTL

(* No key is in the table twice, although an insert lets its locks go to    *)
(* look for a path.                                                         *)
THEOREM NoDuplicates == Spec /\ OnlyMapCalls => []UniqueKeys
<1>1. IndInv => UniqueKeys
  BY DEF IndInv
<1> QED
  BY <1>1, Invariance, PTL

(* Without rehash an entry stays where a look-up of its key finds it, in    *)
(* the middle of a doubling too.                                            *)
THEOREM StaysInPlace == Spec /\ OnlyMapCalls => []InPlace
<1>1. IndInv => InPlace
  BY DEF IndInv
<1> QED
  BY <1>1, Invariance, PTL
-----------------------------------------------------------------------------
(* The table as a map.                                                      *)

(* What the map says is what the entries say.                               *)
EntriesTell ==
  /\ \A pl \in Entries : At(pl).key \in Keys /\ At(pl).val \in Vals /\ AbsMap[At(pl).key] = At(pl).val
  /\ \A k \in Keys : (\A pl \in Entries : At(pl).key # k) => AbsMap[k] = None
  /\ AbsMap \in [Keys -> Vals \cup {None}]

LEMMA MapOfEntries == IndInv => EntriesTell
<1> SUFFICES ASSUME IndInv PROVE EntriesTell
  OBVIOUS
<1>1. ASSUME NEW pl \in Entries
      PROVE  At(pl).key \in Keys /\ At(pl).val \in Vals /\ AbsMap[At(pl).key] = At(pl).val
  <2>1. At(pl).key \in Keys /\ At(pl).val \in Vals
    BY EntriesAre, Table
  <2>2. pl \in Holding(At(pl).key)
    BY DEF IndInv, InPlace, Holding
  <2>3. \A x \in Holding(At(pl).key) : x = pl
    BY DEF IndInv, UniqueKeys, Holding
  <2>4. (CHOOSE x \in Holding(At(pl).key) : TRUE) = pl
    BY <2>2, <2>3
  <2> QED
    BY <2>1, <2>2, <2>4 DEF AbsMap
<1>2. ASSUME NEW k \in Keys, \A pl \in Entries : At(pl).key # k
      PROVE  AbsMap[k] = None
  BY <1>2 DEF AbsMap, Holding
<1>3. ASSUME NEW k \in Keys PROVE AbsMap[k] \in Vals \cup {None}
  BY <1>1, <1>2
<1>4. AbsMap = [k \in Keys |-> AbsMap[k]]
  BY DEF AbsMap
<1> QED
  BY <1>1, <1>2, <1>3, <1>4 DEF EntriesTell

(* Entries that move elsewhere leave the map as it is.                      *)
LEMMA MapStays ==
  ASSUME EntriesTell, EntriesTell',
         \A pl \in Entries : \E x \in Entries' : At(x)' = At(pl),
         \A x \in Entries' : \E pl \in Entries : At(x)' = At(pl)
  PROVE  AbsMap' = AbsMap
<1>1. ASSUME NEW k \in Keys PROVE AbsMap'[k] = AbsMap[k]
  <2>1. CASE \E pl \in Entries : At(pl).key = k
    <3>1. PICK pl \in Entries : At(pl).key = k
      BY <2>1
    <3>2. PICK x \in Entries' : At(x)' = At(pl)
      OBVIOUS
    <3>3. AbsMap[k] = At(pl).val
      BY <3>1 DEF EntriesTell
    <3>4. AbsMap'[At(x)'.key] = At(x)'.val
      BY <3>2 DEF EntriesTell
    <3> QED
      BY <3>1, <3>2, <3>3, <3>4
  <2>2. CASE \A pl \in Entries : At(pl).key # k
    <3>1. AbsMap[k] = None
      BY <2>2 DEF EntriesTell
    <3>2. \A x \in Entries' : At(x)'.key # k
      BY <2>2
    <3>3. AbsMap'[k] = None
      BY <3>2 DEF EntriesTell
    <3> QED
      BY <3>1, <3>3
  <2> QED
    BY <2>1, <2>2
<1>2. DOMAIN AbsMap = Keys /\ DOMAIN AbsMap' = Keys
  BY DEF EntriesTell
<1>3. AbsMap' = [k \in Keys |-> AbsMap'[k]] /\ AbsMap = [k \in Keys |-> AbsMap[k]]
  BY DEF EntriesTell
<1> QED
  BY <1>1, <1>3

LEMMA MapSame ==
  ASSUME EntriesTell, EntriesTell', bucket' = bucket
  PROVE  AbsMap' = AbsMap
<1>1. Entries' = Entries /\ \A pl : At(pl)' = At(pl)
  BY DEF Entries, At
<1> QED
  BY <1>1, MapStays

LEMMA MapOfMove ==
  ASSUME IndInv, IndInv', NEW p, NEW from, NEW to, Shifts(p, from, to), hashpower_' = hashpower_
  PROVE  AbsMap' = AbsMap
<1>1. EntriesTell /\ EntriesTell'
  BY MapOfEntries, PTL
<1>2. bucket' \in [Numbers(hashpower_) -> [Slots -> Entry \cup {Empty}]]
  BY DEF IndInv, TableOK
<1>3. \A pl : pl \in Entries' <=> pl \in Numbers(hashpower_) \X Slots /\ At(pl)' # Empty
  BY <1>2, EntriesAfter
<1>4. /\ from # to /\ from \in Entries /\ to \notin Entries /\ At(from) # Empty
      /\ from \in Numbers(hashpower_) \X Slots /\ to \in Numbers(hashpower_) \X Slots
  BY EntriesAre, Table DEF Shifts
<1>5. /\ At(to)' = At(from) /\ At(from)' = Empty
      /\ \A pl \in Numbers(hashpower_) \X Slots : pl \notin {from, to} => At(pl)' = At(pl)
  BY <1>4, Table DEF Shifts, At
<1>6. to \in Entries' /\ from \notin Entries'
  BY <1>3, <1>4, <1>5
<1>7. \A pl \in Entries : pl # from => pl \in Entries' /\ At(pl)' = At(pl)
  BY <1>3, <1>4, <1>5, EntriesAre
<1>8. \A x \in Entries' : x # to => x \in Entries /\ At(x)' = At(x)
  BY <1>3, <1>4, <1>5, <1>6, EntriesAre
<1>9. ASSUME NEW pl \in Entries PROVE \E x \in Entries' : At(x)' = At(pl)
  BY <1>5, <1>6, <1>7
<1>10. ASSUME NEW x \in Entries' PROVE \E pl \in Entries : At(x)' = At(pl)
  BY <1>4, <1>5, <1>8
<1> QED
  BY <1>1, <1>9, <1>10, MapStays

LEMMA MapOfDouble ==
  ASSUME IndInv, IndInv', NEW p \in Threads, Double(p) \/ move_buckets(p)
  PROVE  AbsMap' = AbsMap
<1>1. EntriesTell /\ EntriesTell'
  BY MapOfEntries, PTL
<1>2. CASE Double(p)
  <2>1. Entries' = Entries /\ \A pl \in Entries : At(pl)' = At(pl)
    BY <1>2, SoundAfterDouble
  <2> QED
    BY <1>1, <2>1, MapStays
<1>3. CASE move_buckets(p)
  <2>1. pc[p] = "migrate" /\ \E l \in Locks : MovesBuckets(p, l)
    BY <1>3, MigrateEffect
  <2>2. PICK l \in Locks : MovesBuckets(p, l)
    BY <2>1
  <2>3. /\ \A pl \in Entries : \A x : x = Dest(p, l, pl) => x \in Entries' /\ At(x)' = At(pl)
        /\ \A x \in Entries' : \E pl \in Entries : x = Dest(p, l, pl)
    BY <2>1, <2>2, MigrateEntries
  <2>4. ASSUME NEW pl \in Entries PROVE \E x \in Entries' : At(x)' = At(pl)
    BY <2>3
  <2>5. ASSUME NEW x \in Entries' PROVE \E pl \in Entries : At(x)' = At(pl)
    <3>1. PICK pl \in Entries : x = Dest(p, l, pl)
      BY <2>3
    <3>2. At(x)' = At(pl)
      BY <2>3, <3>1
    <3> QED
      BY <3>2
  <2> QED
    BY <1>1, <2>4, <2>5, MapStays
<1> QED
  BY <1>2, <1>3

(* Who has the locks of its homes answers what the map says.                *)
LEMMA FoundIsMap ==
  ASSUME IndInv, NEW p \in Threads, pc[p] \in {"get", "put", "remove", "add"}
  PROVE  /\ Holding(Key(p)) = Found(p) /\ Key(p) \in Keys
         /\ Found(p) = {} => AbsMap[Key(p)] = None
         /\ \A pl \in Found(p) : pl \in Entries /\ AbsMap[Key(p)] = At(pl).val /\ At(pl).val \in Vals
<1>1. HasHomes(p) /\ Key(p) \in Keys
  BY WithHomes
<1>2. ASSUME NEW pl \in Holding(Key(p)) PROVE pl \in Found(p)
  <2>1. pl \in Entries /\ At(pl).key = Key(p) /\ Reachable(pl, Key(p))
    BY DEF Holding
  <2>2. HomeSet(hashpower_, Key(p)) # {}
    BY HomesType
  <2>3. pl[1] \in HomeSet(hashpower_, Key(p))
    BY <1>1, <2>1, <2>2, Reached DEF HasHomes
  <2>4. pl \in Numbers(hashpower_) \X Slots
    BY <2>1, EntriesAre
  <2> QED
    BY <2>1, <2>3, <2>4, FoundPlaces
<1>3. ASSUME NEW pl \in Found(p) PROVE pl \in Holding(Key(p)) /\ pl \in Entries /\ At(pl).key = Key(p)
  <2>1. pl \in HomeSet(hashpower_, Key(p)) \X Slots /\ At(pl).key = Key(p) /\ At(pl) \in Entry
    BY FoundPlaces
  <2>2. pl \in Entries
    BY <2>1, EntriesAre, HomesType, Table
  <2> QED
    BY <2>1, <2>2 DEF Holding, Reachable
<1>4. Holding(Key(p)) = Found(p)
  BY <1>2, <1>3
<1>5. Found(p) = {} => AbsMap[Key(p)] = None
  BY <1>1, <1>4 DEF AbsMap
<1>6. ASSUME NEW pl \in Found(p)
      PROVE  pl \in Entries /\ AbsMap[Key(p)] = At(pl).val /\ At(pl).val \in Vals
  BY <1>3, MapOfEntries DEF EntriesTell
<1> QED
  BY <1>1, <1>4, <1>5, <1>6

LEMMA MapOfAdd ==
  ASSUME IndInv, IndInv', NEW p \in Threads, NEW new, Adding(p, new), hashpower_' = hashpower_
  PROVE  /\ AbsMap[Key(p)] = None
         /\ AbsMap' = [AbsMap EXCEPT ![Key(p)] = call[p].val]
<1>1. EntriesTell /\ EntriesTell'
  BY MapOfEntries, PTL
<1>2. /\ pc[p] \in {"put", "add"} /\ Found(p) = {} /\ Key(p) \in Keys /\ call[p].val \in Vals
      /\ new \in Numbers(hashpower_) \X Slots /\ At(new) = Empty
  BY HomesType DEF Adding
<1>3. AbsMap[Key(p)] = None
  BY <1>2, FoundIsMap
<1>4. bucket' \in [Numbers(hashpower_) -> [Slots -> Entry \cup {Empty}]]
  BY DEF IndInv, TableOK
<1>5. \A pl : pl \in Entries' <=> pl \in Numbers(hashpower_) \X Slots /\ At(pl)' # Empty
  BY <1>4, EntriesAfter
<1>6. /\ At(new)' = [key |-> Key(p), val |-> call[p].val]
      /\ \A pl \in Numbers(hashpower_) \X Slots : pl # new => At(pl)' = At(pl)
  BY <1>2, Table DEF Adding, At
<1>7. new \in Entries' /\ new \notin Entries
  BY <1>2, <1>5, <1>6, EntriesAre, Table DEF Empty
<1>8. \A pl : pl # new => (pl \in Entries' <=> pl \in Entries) /\ (pl \in Entries => At(pl)' = At(pl))
  BY <1>5, <1>6, EntriesAre
<1>9. AbsMap'[Key(p)] = call[p].val
  BY <1>1, <1>6, <1>7 DEF EntriesTell
<1>10. ASSUME NEW k \in Keys, k # Key(p) PROVE AbsMap'[k] = AbsMap[k]
  <2>1. CASE \E pl \in Entries : At(pl).key = k
    <3>1. PICK pl \in Entries : At(pl).key = k
      BY <2>1
    <3>2. pl \in Entries' /\ At(pl)' = At(pl)
      BY <1>7, <1>8
    <3>3. AbsMap[k] = At(pl).val
      BY <1>1, <3>1 DEF EntriesTell
    <3>4. AbsMap'[At(pl)'.key] = At(pl)'.val
      BY <1>1, <3>2 DEF EntriesTell
    <3> QED
      BY <3>1, <3>2, <3>3, <3>4
  <2>2. CASE \A pl \in Entries : At(pl).key # k
    <3>1. AbsMap[k] = None
      BY <1>1, <2>2 DEF EntriesTell
    <3>2. ASSUME NEW x \in Entries' PROVE At(x)'.key # k
      <4>1. CASE x = new
        BY <1>6, <1>10, <4>1
      <4>2. CASE x # new
        BY <1>8, <2>2, <4>2
      <4> QED
        BY <4>1, <4>2
    <3>3. AbsMap'[k] = None
      BY <1>1, <3>2 DEF EntriesTell
    <3> QED
      BY <3>1, <3>3
  <2> QED
    BY <2>1, <2>2
<1>11. AbsMap' = [k \in Keys |-> AbsMap'[k]] /\ AbsMap \in [Keys -> Vals \cup {None}]
  BY <1>1 DEF EntriesTell
<1> QED
  BY <1>2, <1>3, <1>9, <1>10, <1>11

LEMMA MapOfRemove ==
  ASSUME IndInv, IndInv', NEW p \in Threads, NEW gone, Removes(p, gone), hashpower_' = hashpower_
  PROVE  /\ AbsMap[Key(p)] = At(gone).val /\ At(gone).val \in Vals
         /\ AbsMap' = [AbsMap EXCEPT ![Key(p)] = None]
<1>1. EntriesTell /\ EntriesTell'
  BY MapOfEntries, PTL
<1>2. /\ pc[p] = "remove" /\ Key(p) \in Keys /\ gone \in Found(p)
  BY DEF Removes
<1>3. gone \in Entries /\ At(gone).key = Key(p) /\ AbsMap[Key(p)] = At(gone).val /\ At(gone).val \in Vals
  BY <1>2, FoundIsMap, FoundPlaces
<1>4. bucket' \in [Numbers(hashpower_) -> [Slots -> Entry \cup {Empty}]]
  BY DEF IndInv, TableOK
<1>5. \A pl : pl \in Entries' <=> pl \in Numbers(hashpower_) \X Slots /\ At(pl)' # Empty
  BY <1>4, EntriesAfter
<1>6. /\ At(gone)' = Empty
      /\ \A pl \in Numbers(hashpower_) \X Slots : pl # gone => At(pl)' = At(pl)
  BY <1>3, EntriesAre, Table DEF Removes, At
<1>7. gone \notin Entries'
  BY <1>5, <1>6
<1>8. \A pl : pl # gone => (pl \in Entries' <=> pl \in Entries) /\ (pl \in Entries => At(pl)' = At(pl))
  BY <1>5, <1>6, EntriesAre
<1>9. AbsMap'[Key(p)] = None
  <2>1. ASSUME NEW x \in Entries' PROVE At(x)'.key # Key(p)
    <3>1. x \in Entries /\ x # gone /\ At(x)' = At(x)
      BY <1>7, <1>8
    <3> QED
      BY <1>3, <3>1 DEF IndInv, UniqueKeys
  <2> QED
    BY <1>1, <1>2, <2>1 DEF EntriesTell
<1>10. ASSUME NEW k \in Keys, k # Key(p) PROVE AbsMap'[k] = AbsMap[k]
  <2>1. CASE \E pl \in Entries : At(pl).key = k
    <3>1. PICK pl \in Entries : At(pl).key = k
      BY <2>1
    <3>2. pl \in Entries' /\ At(pl)' = At(pl)
      BY <1>3, <1>8, <1>10, <3>1
    <3>3. AbsMap[k] = At(pl).val
      BY <1>1, <3>1 DEF EntriesTell
    <3>4. AbsMap'[At(pl)'.key] = At(pl)'.val
      BY <1>1, <3>2 DEF EntriesTell
    <3> QED
      BY <3>1, <3>2, <3>3, <3>4
  <2>2. CASE \A pl \in Entries : At(pl).key # k
    <3>1. AbsMap[k] = None
      BY <1>1, <2>2 DEF EntriesTell
    <3>2. ASSUME NEW x \in Entries' PROVE At(x)'.key # k
      BY <1>7, <1>8, <2>2
    <3>3. AbsMap'[k] = None
      BY <1>1, <3>2 DEF EntriesTell
    <3> QED
      BY <3>1, <3>3
  <2> QED
    BY <2>1, <2>2
<1>11. AbsMap' = [k \in Keys |-> AbsMap'[k]] /\ AbsMap \in [Keys -> Vals \cup {None}]
  BY <1>1 DEF EntriesTell
<1> QED
  BY <1>2, <1>3, <1>9, <1>10, <1>11
-----------------------------------------------------------------------------
(* Why answers are right: seen holds what the map says now, which is what a *)
(* call that has its locks answers; nothing is answered before.             *)
AnswersInv ==
  /\ seen \in [Threads -> SUBSET (Vals \cup {None})]
  /\ \A p \in Threads :
       /\ IF OpenKey(p) = None THEN seen[p] = {} ELSE AbsMap[OpenKey(p)] \in seen[p]
       /\ pc[p] # "done" => ret[p] = None

(* What the steps of a call do to the map and to its result.                *)
Open(p) == pc[p] \notin {"idle", "done"}
GoesOn(p) == Open(p) /\ pc'[p] \notin {"idle", "done"} /\ ret' = ret /\ AbsMap' = AbsMap
Answers(p) ==
  /\ Open(p) /\ pc'[p] = "done" /\ AbsMap' = AbsMap /\ ret' = [ret EXCEPT ![p] = ret'[p]]
  /\ \/ call[p].op = "get" /\ ret'[p] = AbsMap[Key(p)]
     \/ call[p].op = "put" /\ ret' = ret /\ AbsMap[Key(p)] # None
     \/ call[p].op = "remove" /\ ret' = ret /\ AbsMap[Key(p)] = None
Applies(p) ==
  /\ Open(p) /\ pc'[p] = "done"
  /\ \/ /\ call[p].op = "put" /\ AbsMap[Key(p)] = None
        /\ AbsMap' = [AbsMap EXCEPT ![Key(p)] = call[p].val]
        /\ ret' = [ret EXCEPT ![p] = call[p].val]
     \/ /\ call[p].op = "remove" /\ AbsMap[Key(p)] # None
        /\ AbsMap' = [AbsMap EXCEPT ![Key(p)] = None]
        /\ ret' = [ret EXCEPT ![p] = AbsMap[Key(p)]]

LEMMA FindAnswers ==
  ASSUME IndInv, IndInv', NEW p \in Threads, find(p)
  PROVE  Answers(p)
<1>1. EntriesTell /\ EntriesTell'
  BY MapOfEntries, PTL
<1>2. pc[p] = "get" /\ pc'[p] = "done" /\ AbsMap' = AbsMap
  BY <1>1, MapSame DEF find, Goto, IndInv, VarsOK
<1>3. call[p].op = "get" /\ Holding(Key(p)) = Found(p) /\ Key(p) \in Keys
  BY <1>2, WithHomes, FoundIsMap
<1>4. AbsMap[Key(p)] = IF Found(p) = {} THEN None ELSE At(CHOOSE pl \in Found(p) : TRUE).val
  BY <1>3 DEF AbsMap
<1>5. ret' = [ret EXCEPT ![p] = AbsMap[Key(p)]] /\ ret'[p] = AbsMap[Key(p)]
  BY <1>4 DEF find, IndInv, VarsOK
<1> QED
  BY <1>2, <1>3, <1>5 DEF Answers, Open

LEMMA EraseAnswers ==
  ASSUME IndInv, IndInv', NEW p \in Threads, erase(p)
  PROVE  Answers(p) \/ Applies(p)
<1>1. EntriesTell /\ EntriesTell'
  BY MapOfEntries, PTL
<1>2. pc[p] = "remove" /\ pc'[p] = "done" /\ hashpower_' = hashpower_
  BY DEF erase, Goto, IndInv, VarsOK
<1>3. call[p].op = "remove"
  BY <1>2, WithHomes
<1>4. CASE UNCHANGED <<bucket, ret>> /\ Found(p) = {}
  <2>1. AbsMap' = AbsMap /\ AbsMap[Key(p)] = None
    BY <1>1, <1>2, <1>4, MapSame, FoundIsMap
  <2>2. ret' = [ret EXCEPT ![p] = ret'[p]]
    BY <1>4 DEF IndInv, VarsOK
  <2> QED
    BY <1>2, <1>3, <1>4, <2>1, <2>2 DEF Answers, Open
<1>5. ASSUME NEW pl, Removes(p, pl) PROVE Applies(p)
  <2>1. /\ AbsMap[Key(p)] = At(pl).val /\ At(pl).val \in Vals
        /\ AbsMap' = [AbsMap EXCEPT ![Key(p)] = None]
    BY <1>2, <1>5, MapOfRemove
  <2>2. At(pl).val # None
    BY <2>1 DEF Vals, None
  <2> QED
    BY <1>2, <1>3, <1>5, <2>1, <2>2 DEF Applies, Open, Removes
<1> QED
  BY <1>4, <1>5, EraseEffect

LEMMA PutAnswers ==
  ASSUME IndInv, IndInv', NEW p \in Threads, cuckoo_insert(p) \/ AddToFreed(p)
  PROVE  GoesOn(p) \/ Answers(p) \/ Applies(p)
<1>1. EntriesTell /\ EntriesTell'
  BY MapOfEntries, PTL
<1>2. pc[p] \in {"put", "add"} /\ pc'[p] \in {"done", "search"} /\ hashpower_' = hashpower_
  BY DEF cuckoo_insert, AddToFreed, Cuckoo, Goto, IndInv, VarsOK
<1>3. call[p].op = "put"
  BY <1>2, WithHomes
<1>4. CASE UNCHANGED <<bucket, ret>> /\ (pc'[p] = "done" => Found(p) # {})
  <2>1. AbsMap' = AbsMap
    BY <1>1, <1>4, MapSame
  <2>2. ret' = [ret EXCEPT ![p] = ret'[p]]
    BY <1>4 DEF IndInv, VarsOK
  <2>3. pc'[p] = "done" => AbsMap[Key(p)] # None
    <3>1. \A pl \in Found(p) : AbsMap[Key(p)] = At(pl).val /\ At(pl).val \in Vals
      BY <1>2, FoundIsMap
    <3> QED
      BY <1>4, <3>1 DEF Vals, None
  <2> QED
    BY <1>2, <1>3, <1>4, <2>1, <2>2, <2>3 DEF Answers, GoesOn, Open
<1>5. ASSUME NEW pl, Adding(p, pl) PROVE Applies(p)
  <2>1. AbsMap[Key(p)] = None /\ AbsMap' = [AbsMap EXCEPT ![Key(p)] = call[p].val]
    BY <1>2, <1>5, MapOfAdd
  <2> QED
    BY <1>2, <1>3, <1>5, <2>1 DEF Applies, Open, Adding
<1> QED
  BY <1>4, <1>5, InsertEffect, AddEffect

LEMMA OthersAnswer ==
  ASSUME IndInv, IndInv', NEW p \in Threads,
         \/ Snapshot(p) \/ TakeLock(p) \/ slot_search(p) \/ cuckoopath_search(p) \/ PrepareMove(p)
         \/ cuckoopath_move(p) \/ BeginDouble(p) \/ Double(p) \/ move_buckets(p)
  PROVE  GoesOn(p)
<1>1. EntriesTell /\ EntriesTell'
  BY MapOfEntries, PTL
<1>2. Calling(p) /\ Locking(p) /\ VarsOK
  BY DEF IndInv
<1>3. CASE Snapshot(p)
  <2>1. pc[p] = "snapshot" /\ pc'[p] = "lock"
    BY <1>2, <1>3 DEF Snapshot, LockThen, Goto, VarsOK, Calling
  <2> QED
    BY <1>1, <1>3, <2>1, MapSame DEF GoesOn, Open, Snapshot, table
<1>4. CASE TakeLock(p)
  <2>1. pc[p] = "lock" /\ goal[p] \in WithLocks /\ pc'[p] \in {"lock", "snapshot", goal[p]}
    BY <1>2, <1>4 DEF TakeLock, Goto, VarsOK, Locking
  <2> QED
    BY <1>1, <1>4, <2>1, MapSame DEF GoesOn, Open, TakeLock, WithLocks
<1>5. CASE slot_search(p) \/ cuckoopath_search(p)
  <2>1. pc[p] \in {"search", "path"} /\ pc'[p] \in {"search", "path", "snapshot", "full", "moves"}
    BY <1>2, <1>5 DEF slot_search, cuckoopath_search, Goto, StartOver, VarsOK
  <2> QED
    BY <1>1, <1>5, <2>1, MapSame DEF GoesOn, Open, slot_search, cuckoopath_search, table
<1>6. CASE PrepareMove(p) \/ BeginDouble(p)
  <2>1. pc[p] \in {"moves", "full"} /\ pc'[p] \in {"lock", "snapshot"}
    BY <1>2, <1>6 DEF PrepareMove, BeginDouble, LockThen, Goto, StartOver, VarsOK
  <2> QED
    BY <1>1, <1>6, <2>1, MapSame DEF GoesOn, Open, PrepareMove, BeginDouble, table
<1>7. CASE cuckoopath_move(p)
  <2>1. pc[p] = "move" /\ pc'[p] \in {"search", "add", "moves"} /\ hashpower_' = hashpower_ /\ ret' = ret
    BY <1>2, <1>7 DEF cuckoopath_move, Cuckoo, Goto, VarsOK
  <2>2. AbsMap' = AbsMap
    BY <1>1, <1>7, <2>1, MapSame, MoveEffect, MapOfMove
  <2> QED
    BY <2>1, <2>2 DEF GoesOn, Open
<1>8. CASE Double(p) \/ move_buckets(p)
  <2>1. pc[p] \in {"double", "migrate"} /\ pc'[p] \in {"migrate", "snapshot"} /\ ret' = ret
    BY <1>2, <1>8 DEF Double, move_buckets, StartOver, Goto, VarsOK, locals
  <2> QED
    BY <1>8, <2>1, MapOfDouble DEF GoesOn, Open
<1> QED
  BY <1>3, <1>4, <1>5, <1>6, <1>7, <1>8

LEMMA CallStays ==
  ASSUME IndInv, NEW p \in Threads, Work(p), ~Return(p)
  PROVE  call' = call
BY Kinds DEF Work, insert, cuckoo_fast_double, Snapshot, TakeLock, find, erase, cuckoo_insert, slot_search,
   cuckoopath_search, PrepareMove, cuckoopath_move, AddToFreed, Throws, BeginDouble, Double, move_buckets,
   Rehash

(* A call that gives up changes nothing.                                    *)
LEMMA ThrowsGivesUp ==
  ASSUME IndInv, IndInv', NEW p \in Threads, Throws(p)
  PROVE  GivesUp(p) /\ ret' = ret
<1>1. EntriesTell /\ EntriesTell'
  BY MapOfEntries, PTL
<1> QED
  BY <1>1, MapSame DEF Throws, GivesUp, Goto, IndInv, VarsOK, locals, table

LEMMA Outcomes ==
  ASSUME IndInv, IndInv', NEW p \in Threads, Work(p), ~Return(p)
  PROVE  GoesOn(p) \/ Answers(p) \/ Applies(p) \/ (GivesUp(p) /\ ret' = ret)
<1>1. ~Rehash(p)
  BY DEF IndInv, Calling, Rehash
<1> QED
  BY <1>1, FindAnswers, EraseAnswers, PutAnswers, OthersAnswer, ThrowsGivesUp
     DEF Work, insert, cuckoo_fast_double

(* A call and its return.                                                   *)
LEMMA CallBounds ==
  ASSUME IndInv, IndInv', NEW p \in Threads, Invoke(p) \/ Return(p)
  PROVE  /\ AbsMap' = AbsMap
         /\ Invoke(p) => pc[p] = "idle" /\ pc'[p] = "snapshot" /\ ret' = ret
         /\ Return(p) => pc[p] = "done" /\ pc'[p] = "idle" /\ ret' = [ret EXCEPT ![p] = None]
                         /\ call' = [call EXCEPT ![p] = Idle]
<1>1. EntriesTell /\ EntriesTell'
  BY MapOfEntries, PTL
<1>2. bucket' = bucket
  BY DEF Invoke, Return, table
<1> QED
  BY <1>1, <1>2, MapSame DEF Invoke, Return, Goto, IndInv, VarsOK, locals

-----------------------------------------------------------------------------
(* Every step is one of the abstract map.                                   *)
CallsTell ==
  /\ CallMap = call
  /\ \A p \in Threads :
       /\ OpenKey(p) = Key(p) /\ (call[p] = Idle <=> OpenKey(p) = None) /\ OpenKey(p) \in Keys \cup {None}
       /\ pc[p] # "idle" => call[p] \in MapCalls
       /\ Stage(p) = IF Open(p) THEN "open" ELSE pc[p]

LEMMA CallsAre == IndInv => CallsTell
<1> SUFFICES ASSUME IndInv PROVE CallsTell
  OBVIOUS
<1>1. ASSUME NEW p \in Threads
      PROVE  /\ call[p].op # "rehash" /\ call[p] \in MapCalls \cup {Idle}
             /\ pc[p] = "idle" <=> call[p] = Idle
  BY DEF IndInv, VarsOK, Calling, Calls
<1>2. call = [p \in Threads |-> call[p]]
  BY DEF IndInv, VarsOK
<1>3. CallMap = call
  BY <1>1, <1>2 DEF CallMap
<1>4. ASSUME NEW p \in Threads
      PROVE  /\ OpenKey(p) = Key(p) /\ (call[p] = Idle <=> OpenKey(p) = None) /\ OpenKey(p) \in Keys \cup {None}
             /\ pc[p] # "idle" => call[p] \in MapCalls
             /\ Stage(p) = IF Open(p) THEN "open" ELSE pc[p]
  <2>1. CASE call[p] = Idle
    BY <1>1, <2>1 DEF OpenKey, Key, Idle, None, Stage, Open
  <2>2. CASE call[p] \in MapCalls /\ call[p] # Idle
    BY <1>1, <2>2, KeysAssumption DEF OpenKey, Key, MapCalls, None, Stage, Open
  <2> QED
    BY <1>1, <2>1, <2>2
<1> QED
  BY <1>3, <1>4 DEF CallsTell

LEMMA KVWatch ==
  ASSUME IndInv, IndInv', Watch
  PROVE  KV!Watch
<1>0. CallsTell /\ CallsTell'
  BY CallsAre, PTL
<1>1. CallMap = call /\ CallMap' = call'
  BY <1>0 DEF CallsTell
<1>2. \A p \in Threads : OpenKey(p) = call[p].key /\ (call[p] = Idle <=> OpenKey(p) = None)
  BY <1>0 DEF CallsTell, Key
<1>4. \A p \in Threads : OpenKey(p)' = call'[p].key /\ (call'[p] = Idle <=> OpenKey(p)' = None)
  BY <1>0 DEF CallsTell, Key
<1>5. ASSUME NEW p \in Threads
      PROVE  (IF OpenKey(p)' = None THEN {}
              ELSE IF OpenKey(p) = None THEN {AbsMap'[OpenKey(p)']}
              ELSE seen[p] \cup {AbsMap'[OpenKey(p)]})
             = (IF call'[p] = Idle THEN {}
                ELSE IF call[p] = Idle THEN {AbsMap'[call'[p].key]}
                ELSE seen[p] \cup {AbsMap'[call[p].key]})
  BY <1>2, <1>4
<1>6. seen' = [p \in Threads |-> IF call'[p] = Idle THEN {}
                                 ELSE IF call[p] = Idle THEN {AbsMap'[call'[p].key]}
                                 ELSE seen[p] \cup {AbsMap'[call[p].key]}]
  BY <1>5 DEF Watch
<1>7. KV!Idle = Idle
  BY DEF KV!Idle, Idle, KV!None, None
<1> QED
  BY <1>1, <1>6, <1>7 DEF KV!Watch

(* Steps that leave a call open or make or end it.                          *)
LEMMA StageMaps ==
  ASSUME IndInv, IndInv', NEW p \in Threads, Invoke(p) \/ Work(p)
  PROVE  StageMap' = [StageMap EXCEPT ![p] = IF pc'[p] \in {"idle", "done"} THEN pc'[p] ELSE "open"]
<1>0. CallsTell /\ CallsTell'
  BY CallsAre, PTL
<1>1. \A r \in Threads : Stage(r) = IF Open(r) THEN "open" ELSE pc[r]
  BY <1>0 DEF CallsTell
<1>3. \A r \in Threads : Stage(r)' = IF pc'[r] \in {"idle", "done"} THEN pc'[r] ELSE "open"
  BY <1>0 DEF CallsTell, Open
<1>4. \A r \in Threads \ {p} : Stage(r)' = Stage(r)
  BY <1>1, <1>3, OthersStay DEF Open
<1> QED
  BY <1>3, <1>4 DEF StageMap

(* AnswersInv is inductive.                                                 *)
LEMMA AnswersStay ==
  ASSUME IndInv, IndInv', AnswersInv, Watch, NEW p \in Threads, Invoke(p) \/ Work(p)
  PROVE  AnswersInv'
<1>1. EntriesTell /\ EntriesTell'
  BY MapOfEntries, PTL
<1>0. CallsTell /\ CallsTell'
  BY CallsAre, PTL
<1>2. \A r \in Threads : OpenKey(r) \in Keys \cup {None}
  BY <1>0 DEF CallsTell
<1>3. \A r \in Threads : OpenKey(r)' \in Keys \cup {None}
  BY <1>0 DEF CallsTell
<1>4. \A k \in Keys : AbsMap'[k] \in Vals \cup {None}
  BY <1>1 DEF EntriesTell
<1>5. \A r \in Threads : OpenKey(r) # None /\ OpenKey(r)' # None => OpenKey(r)' = OpenKey(r)
  <2>1. ASSUME NEW r \in Threads, r # p PROVE OpenKey(r)' = OpenKey(r)
    BY <2>1, OthersStay DEF OpenKey, Key
  <2>2. CASE Invoke(p)
    <3>1. OpenKey(p) = None
      BY <1>0, <2>2 DEF Invoke, IndInv, Calling, CallsTell
    <3> QED
      BY <2>1, <3>1
  <2>3. CASE Return(p)
    <3>1. call'[p] = Idle
      BY <2>3 DEF Return, IndInv, VarsOK
    <3>2. OpenKey(p)' = None
      BY <3>1 DEF OpenKey, Idle
    <3> QED
      BY <2>1, <3>2
  <2>4. CASE Work(p) /\ ~Return(p)
    BY <2>1, <2>4, CallStays DEF OpenKey, Key
  <2> QED
    BY <2>2, <2>3, <2>4
<1>6. seen' \in [Threads -> SUBSET (Vals \cup {None})]
  <2>1. \A r \in Threads : seen[r] \subseteq Vals \cup {None}
    BY DEF AnswersInv
  <2> QED
    BY <1>2, <1>3, <1>4, <2>1 DEF Watch
<1>7. ASSUME NEW r \in Threads
      PROVE  IF OpenKey(r)' = None THEN seen'[r] = {} ELSE AbsMap'[OpenKey(r)'] \in seen'[r]
  BY <1>5, <1>7 DEF Watch
<1>8. ASSUME NEW r \in Threads, pc'[r] # "done"
      PROVE  ret'[r] = None
  <2>1. CASE r # p
    BY <1>8, <2>1, OthersStay DEF AnswersInv
  <2>2. CASE r = p /\ (Invoke(p) \/ Return(p))
    BY <2>2, CallBounds DEF AnswersInv, IndInv, VarsOK
  <2>3. CASE r = p /\ Work(p) /\ ~Return(p)
    <3>1. GoesOn(p)
      BY <1>8, <2>3, Outcomes DEF Answers, Applies, GivesUp
    <3> QED
      BY <2>3, <3>1 DEF GoesOn, Open, AnswersInv
  <2> QED
    BY <2>1, <2>2, <2>3
<1> QED
  BY <1>6, <1>7, <1>8 DEF AnswersInv

LEMMA CallImplements ==
  ASSUME IndInv, IndInv', OnlyMapCalls, NEW p \in Threads, Invoke(p) \/ Return(p)
  PROVE  KV!KVInvoke(p) \/ KV!KVReturn(p)
<1> USE DEF KV!None, None, KV!Idle, Idle
<1>1. CallsTell /\ CallsTell'
  BY CallsAre, PTL
<1>2. CallMap = call /\ CallMap' = call'
  BY <1>1 DEF CallsTell
<1>3. StageMap[p] = Stage(p) /\ Stage(p) = IF Open(p) THEN "open" ELSE pc[p]
  BY <1>1 DEF CallsTell, StageMap
<1>4. CASE Invoke(p)
  <2>1. pc[p] = "idle" /\ pc'[p] = "snapshot" /\ ret' = ret /\ AbsMap' = AbsMap
    BY <1>4, CallBounds
  <2>2. StageMap[p] = "idle" /\ StageMap' = [StageMap EXCEPT ![p] = "open"]
    BY <1>3, <1>4, <2>1, StageMaps DEF Open
  <2>3. call'[p] \in KV!Calls /\ call' = [call EXCEPT ![p] = call'[p]]
    BY <1>4, OwnInvoke DEF KV!Calls, MapCalls
  <2> QED
    BY <1>2, <2>1, <2>2, <2>3 DEF KV!KVInvoke
<1>5. CASE Return(p)
  <2>1. /\ pc[p] = "done" /\ pc'[p] = "idle" /\ ret' = [ret EXCEPT ![p] = None] /\ AbsMap' = AbsMap
        /\ call' = [call EXCEPT ![p] = Idle]
    BY <1>5, CallBounds
  <2>2. StageMap[p] = "done" /\ StageMap' = [StageMap EXCEPT ![p] = "idle"]
    BY <1>3, <1>5, <2>1, StageMaps DEF Open, Work
  <2> QED
    BY <1>2, <2>1, <2>2 DEF KV!KVReturn
<1> QED
  BY <1>4, <1>5

LEMMA StepImplements ==
  ASSUME IndInv, IndInv', AnswersInv, Watch, NEW p \in Threads, Work(p), ~Return(p)
  PROVE  KV!KVApply(p) \/ KV!KVAnswer(p) \/ UNCHANGED KV!kvVars \/ GivesUp(p)
<1> USE DEF KV!None, None
<1>1. CallsTell /\ CallsTell' /\ EntriesTell
  BY CallsAre, MapOfEntries, PTL
<1>2. CallMap = call /\ CallMap' = call' /\ call' = call
  BY <1>1, CallStays DEF CallsTell
<1>3. StageMap[p] = IF Open(p) THEN "open" ELSE pc[p]
  BY <1>1 DEF CallsTell, StageMap
<1>4. OpenKey(p) = Key(p)
  BY <1>1 DEF CallsTell
<1>5. CASE Applies(p)
  <2>1. StageMap[p] = "open" /\ StageMap' = [StageMap EXCEPT ![p] = "done"]
    BY <1>3, <1>5, StageMaps DEF Applies
  <2> QED
    BY <1>2, <1>5, <2>1 DEF KV!KVApply, Applies, Key
<1>6. CASE Answers(p)
  <2>1. StageMap[p] = "open" /\ StageMap' = [StageMap EXCEPT ![p] = "done"]
    BY <1>3, <1>6, StageMaps DEF Answers
  <2>2. call[p] \in MapCalls /\ Key(p) \in Keys
    BY <1>1, <1>6 DEF CallsTell, Answers, Open, MapCalls, Key
  <2>3. AbsMap[Key(p)] \in seen[p] /\ AbsMap[Key(p)] \in Vals \cup {None}
    BY <1>1, <1>4, <2>2, KeysAssumption DEF AnswersInv, EntriesTell
  <2>4. ret'[p] \in Vals \cup {None} /\ (ret' = ret => ret'[p] = None)
    BY <1>6, <2>3 DEF Answers, AnswersInv, Open
  <2>5. KV!Justified(p, ret'[p])
    BY <1>2, <1>6, <2>3, <2>4 DEF KV!Justified, Answers
  <2> QED
    BY <1>2, <1>6, <2>1, <2>4, <2>5 DEF KV!KVAnswer, Answers
<1>7. CASE GoesOn(p)
  <2>1. StageMap' = StageMap
    BY <1>3, <1>7, StageMaps DEF GoesOn, StageMap
  <2>2. seen' = seen
    <3>1. \A r \in Threads : OpenKey(r)' = OpenKey(r)
      BY <1>2 DEF OpenKey, Key
    <3>2. ASSUME NEW r \in Threads, OpenKey(r) # None
          PROVE  seen[r] \cup {AbsMap'[OpenKey(r)]} = seen[r]
      BY <1>7, <3>2 DEF AnswersInv, GoesOn
    <3>3. ASSUME NEW r \in Threads, OpenKey(r) = None PROVE seen[r] = {}
      BY <3>3 DEF AnswersInv
    <3> QED
      BY <3>1, <3>2, <3>3 DEF Watch, AnswersInv
  <2> QED
    BY <1>2, <1>7, <2>1, <2>2 DEF KV!kvVars, GoesOn
<1> QED
  BY <1>5, <1>6, <1>7, Outcomes

LEMMA StartAnswers ==
  ASSUME Init
  PROVE  AnswersInv /\ KV!KVInit
<1>1. IndInv
  BY Start0
<1>2. CallsTell /\ EntriesTell
  BY <1>1, CallsAre, MapOfEntries
<1>3. Entries = {}
  BY <1>1, EntriesAre DEF Init, NoBuckets, At
<1>4. AbsMap = [k \in Keys |-> None]
  BY <1>2, <1>3 DEF EntriesTell
<1>5. StageMap = [p \in Threads |-> "idle"]
  BY <1>2 DEF CallsTell, StageMap, Init, Open
<1>6. \A p \in Threads : OpenKey(p) = None
  BY DEF Init, OpenKey, Idle
<1> QED
  BY <1>2, <1>4, <1>5, <1>6 DEF AnswersInv, Init, CallsTell, KV!KVInit, KV!Idle, KV!None, Idle, None

LEMMA AnswersStutter ==
  ASSUME IndInv, IndInv', AnswersInv, UNCHANGED vars
  PROVE  AnswersInv'
<1>1. AbsMap' = AbsMap
  <2>1. EntriesTell /\ EntriesTell'
    BY MapOfEntries, PTL
  <2> QED
    BY <2>1, MapSame DEF vars, state, table
<1>2. \A p \in Threads : OpenKey(p)' = OpenKey(p)
  BY DEF vars, state, OpenKey, Key
<1> QED
  BY <1>1, <1>2 DEF AnswersInv, vars, state, locals

(* Whoever has the locks of its key answers what the map says.              *)
THEOREM AnswersInvariance == Spec /\ OnlyMapCalls => []AnswersInv
<1>1. Init => AnswersInv
  BY StartAnswers
<1>2. IndInv /\ IndInv' /\ AnswersInv /\ [Next]_vars => AnswersInv'
  BY AnswersStay, AnswersStutter DEF Next
<1> QED
  BY <1>1, <1>2, Invariance, PTL DEF Spec

(* A put, get or remove is one of an atomic map, whatever moves and doubles *)
(* meanwhile; a put may give up on a table that cannot grow.                *)
THEOREM IsAtomicMap == Spec /\ OnlyMapCalls => LinearizableOrThrows
<1>1. Init => KV!KVInit
  BY StartAnswers
<1>2. OnlyMapCalls /\ IndInv /\ IndInv' /\ AnswersInv /\ [Next]_vars
        => [KV!KVNext \/ UNCHANGED KV!kvVars \/ \E p \in Threads : GivesUp(p)]_vars
  <2> SUFFICES ASSUME OnlyMapCalls, IndInv, IndInv', AnswersInv, Next
               PROVE  KV!KVNext \/ UNCHANGED KV!kvVars \/ \E p \in Threads : GivesUp(p)
    OBVIOUS
  <2>1. PICK p \in Threads : Invoke(p) \/ Work(p)
    BY DEF Next
  <2>2. Watch /\ KV!Watch
    BY KVWatch DEF Next
  <2>3. CASE Invoke(p) \/ Return(p)
    BY <2>2, <2>3, CallImplements DEF KV!KVNext
  <2>4. CASE Work(p) /\ ~Return(p)
    BY <2>2, <2>4, StepImplements DEF KV!KVNext
  <2> QED
    BY <2>1, <2>3, <2>4
<1> QED
  BY <1>1, <1>2, WorkloadStays, Invariance, AnswersInvariance, PTL DEF Spec, LinearizableOrThrows
=============================================================================
