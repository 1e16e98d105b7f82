--------------------------- MODULE ClhtFixed_map ---------------------------
(***************************************************************************)
(* Proofs about ClhtFixed, for every number of threads, keys, entries per   *)
(* bucket and buckets: the chain is an atomic map for its updates, and for  *)
(* the answers the variant gets right.  What a call may answer follows from *)
(* AnswersInv, which is inductive together with IndInv; the map refined is  *)
(* KVMap.                                                                   *)
(***************************************************************************)
EXTENDS ClhtFixed_proofs

-----------------------------------------------------------------------------
(* The table as a map.  What every thread knows of the place it writes.     *)
AllWrites == \A p \in Threads : Writes(p)
KeyIn(pl) == key[pl[1]][pl[2]]
ValIn(pl) == val[pl[1]][pl[2]]

(* Who has yet to write a value only is a put of lb or lock_ins.            *)
LEMMA OnlyValue ==
  ASSUME IndInv, NEW p \in Threads, stores[p] = <<"val">>
  PROVE  /\ pc[p] = "store" /\ call[p].op = "put" /\ variant # "packed"
         /\ \A q \in Threads : q # p => stores[q] = << >>
<1>0. {"link", "key", "val", "last", "clear", "moveval", "movekey", "unlast"} \subseteq StoreNames
  BY DEF StoreNames
<1>1. TypeOK /\ Phase(p)
  BY DEF IndInv
<1>2. stores[p] # << >> /\ Head(stores[p]) = "val" /\ Len(stores[p]) = 1
  BY <1>0, Lists
<1>3. pc[p] = "store"
  BY <1>1, <1>2 DEF Phase
<1>4. stores[p] \in StoresLeft(p) /\ call[p].op \in {"put", "remove"}
  BY <1>1, <1>3 DEF Phase
<1>5. <<"val">> \notin PutsAhead /\ <<"val">> \notin Removing /\ <<"val">> # <<"clear">>
  <2>1. /\ Len(<<"link", "key", "val", "last">>) # 1 /\ Len(<<"key", "val", "last">>) # 1
        /\ Len(<<"val", "last">>) # 1 /\ Len(<<"val", "key", "last">>) # 1
        /\ Len(<<"key", "last">>) # 1 /\ Head(<<"last">>) # "val"
    BY <1>0, Lists
  <2>2. /\ Len(<<"clear", "moveval", "movekey", "unlast">>) # 1
        /\ Len(<<"moveval", "movekey", "unlast">>) # 1 /\ Len(<<"movekey", "unlast">>) # 1
        /\ Head(<<"unlast">>) # "val" /\ Head(<<"clear">>) # "val"
    BY <1>0, Lists
  <2> QED
    BY <1>2, <2>1, <2>2 DEF PutsAhead, Removing
<1>6. ASSUME NEW q \in Threads, q # p PROVE stores[q] = << >>
  <2>1. pc[q] # "store" /\ Phase(q)
    BY <1>1, <1>3, <1>6, Holder DEF IndInv
  <2> QED
    BY <2>1 DEF Phase
<1> QED
  BY <1>3, <1>4, <1>5, <1>6 DEF StoresLeft

(* The value of an entry: what is stored with it, or about to be.           *)
LEMMA ValueOf ==
  ASSUME IndInv, NEW pl
  PROVE  /\ (\A q \in Threads : ~(empty[q] = pl /\ stores[q] = <<"val">>)) => ValueAt(pl) = ValIn(pl)
         /\ \A q \in Threads : empty[q] = pl /\ stores[q] = <<"val">> => ValueAt(pl) = call[q].val
         /\ variant = "packed" => ValueAt(pl) = ValIn(pl)
<1> DEFINE writers == {q \in Threads : empty[q] = pl /\ stores[q] = <<"val">>}
<1>1. ValueAt(pl) = IF writers = {} THEN ValIn(pl) ELSE call[CHOOSE q \in writers : TRUE].val
  BY DEF ValueAt, ValIn
<1>2. ASSUME NEW q \in Threads, empty[q] = pl, stores[q] = <<"val">>
      PROVE  ValueAt(pl) = call[q].val
  <2>1. q \in writers /\ (CHOOSE r \in writers : TRUE) \in writers
    BY <1>2
  <2>2. << >> # <<"val">>
    OBVIOUS
  <2>3. \A r \in writers : r = q
    BY <1>2, <2>2, OnlyValue
  <2> QED
    BY <1>1, <2>1, <2>3
<1>3. (\A q \in Threads : ~(empty[q] = pl /\ stores[q] = <<"val">>)) => writers = {}
  OBVIOUS
<1>4. variant = "packed" => \A q \in Threads : stores[q] # <<"val">>
  BY OnlyValue
<1> HIDE DEF writers
<1> QED
  BY <1>1, <1>2, <1>3, <1>4

(* A key that a packed remove is moving has the same value in both places.  *)
LEMMA SameValue ==
  IndInv /\ AllWrites =>
    \A k \in Keys : \A pl, other \in Holding(k) : ValueAt(pl) = ValueAt(other)
<1> SUFFICES ASSUME IndInv, AllWrites, NEW k \in Keys, NEW pl \in Holding(k), NEW other \in Holding(k),
                    pl # other
             PROVE  ValueAt(pl) = ValueAt(other)
  OBVIOUS
<1>1. PICK p \in Threads : stores[p] = <<"unlast">> /\ LastPlace(p) \in {pl, other}
  BY DEF IndInv, OneCopy
<1>2. TypeOK /\ Phase(p)
  BY DEF IndInv
<1>3. stores[p] # << >> /\ Head(stores[p]) = "unlast"
  <2>1. "unlast" \in StoreNames
    BY DEF StoreNames
  <2> QED
    BY <1>1, <2>1, Lists
<1>4. pc[p] = "store" /\ stores[p] \in StoresLeft(p) /\ call[p].op \in {"put", "remove"}
  BY <1>2, <1>3 DEF Phase
<1>5. First(stores[p])
  BY <1>4, FirstStore
<1>6. call[p].op = "remove" /\ variant = "packed"
  <2>0. {"link", "key", "val", "last", "clear", "moveval", "movekey", "unlast"} \subseteq StoreNames
    BY DEF StoreNames
  <2>1. CASE call[p].op = "put" /\ variant = "packed"
    BY <1>3, <1>4, <2>0, <2>1, Lists DEF StoresLeft, PutsAhead
  <2>2. CASE call[p].op = "put" /\ variant # "packed"
    BY <1>3, <1>4, <2>0, <2>2, Lists DEF StoresLeft, KeyAhead
  <2>3. CASE call[p].op = "remove" /\ variant # "packed"
    BY <1>3, <1>4, <2>0, <2>3, Lists DEF StoresLeft
  <2> QED
    BY <1>4, <2>1, <2>2, <2>3
<1>7. PICK e \in 1..linked :
         /\ FilledTo(e) /\ LastBucket(p) = e /\ e \in Buckets /\ last[e] \in Slots
         /\ b[p] \in 1..e /\ empty[p] = <<b[p], j[p]>> /\ j[p] \in 1..last[b[p]]
         /\ LastPlace(p) = <<e, last[e]>> /\ LastPlace(p) \in Places
  BY <1>4, <1>6, Moved
<1>8. /\ KeyIn(empty[p]) = KeyIn(LastPlace(p)) /\ ValIn(empty[p]) = ValIn(LastPlace(p))
      /\ empty[p] = LastPlace(p) => KeyIn(empty[p]) = None
  BY <1>3, <1>4, <1>6 DEF AllWrites, Writes, KeyTo, ValTo, KeyIn, ValIn
<1>9. /\ \A x \in Holding(k) : KeyIn(x) = k
      /\ k # None
  BY KeysAssumption DEF Holding, KeyIn, None
<1>10. KeyIn(empty[p]) = k /\ empty[p] # LastPlace(p)
  BY <1>1, <1>8, <1>9
<1>11. empty[p] \in Holding(k)
  <2>1. empty[p] \in Places
    BY <1>2, <1>4 DEF IndInv, Storing
  <2>2. b[p] <= linked /\ j[p] <= last[b[p]]
    BY <1>2, <1>7 DEF TypeOK, Buckets
  <2>3. Used(empty[p][1], empty[p][2])
    BY <1>7, <2>2 DEF Used
  <2> QED
    BY <1>10, <2>1, <2>3 DEF Holding, KeyIn
<1>12. \A q \in Threads : stores[q] = <<"unlast">> => q = p
  <2>1. ASSUME NEW q \in Threads, stores[q] = <<"unlast">>, q # p PROVE FALSE
    <3>1. pc[q] # "store" /\ Phase(q)
      BY <1>2, <1>4, <2>1, Holder DEF IndInv
    <3> QED
      BY <1>1, <1>3, <2>1, <3>1 DEF Phase
  <2> QED
    BY <2>1
<1>13. \A x, y \in Holding(k) : x # y => LastPlace(p) \in {x, y}
  BY <1>12 DEF IndInv, OneCopy
<1>14. {pl, other} = {LastPlace(p), empty[p]}
  BY <1>1, <1>10, <1>11, <1>13
<1>15. ValueAt(pl) = ValIn(pl) /\ ValueAt(other) = ValIn(other)
  BY <1>6, ValueOf
<1> QED
  BY <1>8, <1>14, <1>15

(* What a look-up finds is the value of every entry of the key.             *)
LEMMA MapValue ==
  IndInv /\ AllWrites =>
    \A k \in Keys : /\ Holding(k) = {} => AbsMap[k] = None
                    /\ \A pl \in Holding(k) : AbsMap[k] = ValueAt(pl)
<1> SUFFICES ASSUME IndInv, AllWrites, NEW k \in Keys
             PROVE  /\ Holding(k) = {} => AbsMap[k] = None
                    /\ \A pl \in Holding(k) : AbsMap[k] = ValueAt(pl)
  OBVIOUS
<1>1. Holding(k) = {} => AbsMap[k] = None
  BY DEF AbsMap
<1>2. ASSUME NEW pl \in Holding(k) PROVE AbsMap[k] = ValueAt(pl)
  <2>1. AbsMap[k] = ValueAt(CHOOSE x \in Holding(k) : TRUE)
    BY <1>2 DEF AbsMap
  <2>2. (CHOOSE x \in Holding(k) : TRUE) \in Holding(k)
    BY <1>2
  <2> QED
    BY <2>1, <2>2, SameValue
<1> QED
  BY <1>1, <1>2

-----------------------------------------------------------------------------
(* What a step of p leaves of the other threads and of the places.          *)
LEMMA OthersKeep ==
  ASSUME TypeOK, NEW p \in Threads, Invoke(p) \/ Work(p), NEW q \in Threads, q # p
  PROVE  ret'[q] = ret[q] /\ found'[q] = found[q]
<1> USE DEF TypeOK
<1>1. CASE Invoke(p) \/ Return(p) \/ ReadLast(p) \/ LookVal(p) \/ LookKey(p) \/ LookAgain(p)
  BY <1>1 DEF Invoke, Return, ReadLast, LookVal, LookKey, LookAgain, locals
<1>2. CASE Lock(p) \/ Unlock(p) \/ clht_put(p) \/ Store(p) \/ clht_remove(p)
  <2>1. found' = found
    BY <1>2 DEF Lock, Unlock, clht_put, SearchPut, SearchOn, SearchEnds, Store, clht_remove,
       SearchRemove, Block, Take, Free, locals
  <2>2. ret'[q] = ret[q]
    BY <1>2 DEF Lock, Unlock, clht_put, SearchPut, SearchOn, SearchEnds, Store, clht_remove,
       SearchRemove, Block, Take, Free, locals
  <2> QED
    BY <2>1, <2>2
<1> QED
  BY <1>1, <1>2 DEF Work, clht_get, bucket_exists

(* A store writes one place.                                                *)
LEMMA StoreValues ==
  ASSUME IndInv, NEW p \in Threads, Store(p)
  PROVE  LET s == Head(stores[p])
             x == empty[p][1]
             y == empty[p][2]
         IN  /\ \A z \in Buckets, w \in Slots : <<z, w>> # empty[p] => val'[z][w] = val[z][w]
             /\ val'[x][y] = ValStored(p, s)
             /\ s \notin {"val", "moveval"} => val' = val
<1> DEFINE s == Head(stores[p])
           x == empty[p][1]
           y == empty[p][2]
<1>1. StoreAt(p, s) /\ empty[p] = <<x, y>> /\ x \in Buckets /\ y \in Slots
  BY StoreEffect
<1>2. val \in [Buckets -> [Slots -> 0..Junk]]
  BY DEF IndInv, TypeOK
<1>3. val' = [val EXCEPT ![x][y] = ValStored(p, s)]
  BY <1>1 DEF StoreAt
<1>4. s \notin {"val", "moveval"} => ValStored(p, s) = val[x][y]
  BY DEF ValStored
<1>5. val'[x][y] = ValStored(p, s)
  BY <1>1, <1>2, <1>3
<1>6. \A z \in Buckets, w \in Slots : <<z, w>> # empty[p] => val'[z][w] = val[z][w]
  BY <1>1, <1>2, <1>3
<1>7. s \notin {"val", "moveval"} => val' = val
  BY <1>1, <1>2, <1>3, <1>4
<1> QED
  BY <1>5, <1>6, <1>7

(* Only a store writes a value.                                             *)
LEMMA ValueStays ==
  ASSUME NEW p \in Threads, Invoke(p) \/ Work(p), ~Store(p)
  PROVE  val' = val
BY DEF Work, Invoke, Return, clht_get, LookVal, LookAgain, bucket_exists, ReadLast, LookKey,
   Lock, Unlock, clht_put, SearchPut, SearchOn, SearchEnds, clht_remove, SearchRemove, Block,
   Take, Free, table

(* Besides stores only the removes of lock_ins write keys, and never where  *)
(* there is none.                                                           *)
LEMMA KeyStays ==
  ASSUME IndInv, NEW p \in Threads, Invoke(p) \/ Work(p), ~Store(p), Blocks(p)
  PROVE  /\ key' = key \/ (Block(p) /\ KeyAt(p) = call[p].key) \/ Free(p)
         /\ variant # "lock_ins" => key' = key
         /\ \A pl \in Places : \/ KeyIn(pl)' = KeyIn(pl)
                               \/ /\ variant = "lock_ins" /\ KeyIn(pl) # None
                                  /\ pl = <<b[p], j[p]>>
<1>0. TypeOK /\ Phase(p)
  BY DEF IndInv
<1>1. key' = key \/ (Block(p) /\ KeyAt(p) = call[p].key) \/ Free(p)
  BY DEF Work, Invoke, Return, clht_get, LookVal, LookAgain, bucket_exists, ReadLast, LookKey,
     Lock, Unlock, clht_put, SearchPut, SearchOn, SearchEnds, clht_remove, SearchRemove, Block,
     Take, table
<1>2. ASSUME (Block(p) /\ KeyAt(p) = call[p].key) \/ Free(p)
      PROVE  /\ variant = "lock_ins" /\ b[p] \in Buckets /\ j[p] \in Slots /\ KeyAt(p) # None
             /\ \E c \in {None, KEY_BLCK} : key' = [key EXCEPT ![b[p]][j[p]] = c]
  <2>1. pc[p] \in {"block", "free"}
    BY <1>2 DEF Block, Free
  <2>2. variant = "lock_ins" /\ b[p] \in Buckets /\ j[p] \in Slots /\ call[p] \in Calls
    BY <1>0, <2>1 DEF TypeOK, Phase
  <2>3. call[p].key # 0 /\ KEY_BLCK # 0
    BY <2>2, CallTypes DEF KEY_BLCK
  <2>4. KeyAt(p) # None
    BY <1>2, <2>3 DEF Blocks, Free, None
  <2> QED
    BY <1>2, <2>2, <2>4 DEF Block, Free
<1>3. ASSUME NEW pl \in Places
      PROVE  \/ KeyIn(pl)' = KeyIn(pl)
             \/ variant = "lock_ins" /\ KeyIn(pl) # None /\ pl = <<b[p], j[p]>>
  <2>1. pl = <<pl[1], pl[2]>> /\ pl[1] \in Buckets /\ pl[2] \in Slots
    BY Bounds
  <2>2. CASE key' = key
    BY <2>2 DEF KeyIn
  <2>3. CASE key' # key /\ pl = <<b[p], j[p]>>
    BY <1>1, <1>2, <2>1, <2>3 DEF KeyIn, KeyAt
  <2>4. CASE key' # key /\ pl # <<b[p], j[p]>>
    <3>1. PICK c \in {None, KEY_BLCK} : key' = [key EXCEPT ![b[p]][j[p]] = c]
      BY <1>1, <1>2, <2>4
    <3>2. b[p] \in Buckets /\ j[p] \in Slots
      BY <1>1, <1>2, <2>4
    <3>3. pl[1] # b[p] \/ pl[2] # j[p]
      BY <2>1, <2>4
    <3> QED
      BY <1>0, <2>1, <3>1, <3>2, <3>3 DEF KeyIn, TypeOK
  <2> QED
    BY <2>2, <2>3, <2>4
<1> QED
  BY <1>1, <1>2, <1>3

(* The other threads know what they did.                                    *)
LEMMA OthersWrite ==
  ASSUME IndInv, NEW p \in Threads, Invoke(p) \/ Work(p), variant' = variant, Blocks(p),
         NEW q \in Threads, q # p, Writes(q), Outcome(q)
  PROVE  Writes(q)'
<1>0. TypeOK /\ Phase(q)
  BY DEF IndInv
<1>1. /\ pc'[q] = pc[q] /\ call'[q] = call[q] /\ b'[q] = b[q] /\ j'[q] = j[q]
      /\ empty'[q] = empty[q] /\ stores'[q] = stores[q] /\ ret'[q] = ret[q]
  BY <1>0, OthersStay, OthersKeep
<1>2. CASE Store(p)
  <2>1. pc[q] \notin {"search", "store"}
    BY <1>0, <1>2, Holder DEF Store
  <2> QED
    BY <1>1, <2>1 DEF Writes
<1>3. CASE ~Store(p)
  <2>1. Shrinks /\ pc[p] # "store" /\ val' = val
    BY <1>3, ShrinkStep, ValueStays
  <2>2. /\ variant # "lock_ins" => key' = key
        /\ \A pl \in Places : KeyIn(pl)' = KeyIn(pl) \/ KeyIn(pl) # None
    BY <1>3, KeyStays
  <2>3. stores[q] # << >> => LastPlace(q)' = LastPlace(q)
    BY <2>1, HolesStay
  <2>4. pc[q] = "search" => Holding(call[q].key)' \subseteq Holding(call[q].key)
    <3>1. pc[q] = "search" => call[q].key \in Keys
      BY <1>0, CallTypes DEF Phase
    <3>2. ASSUME NEW k \in Keys, k = call[q].key
          PROVE  Holding(call[q].key)' \subseteq Holding(call[q].key)
      <4>1. Holding(call[q].key)' = Holding(k)'
        BY <1>1, <3>2 DEF Holding
      <4> QED
        BY <2>1, <3>2, <4>1 DEF Shrinks
    <3> QED
      BY <3>1, <3>2
  <2>5. empty[q] \in Places /\ KeyTo(q) = None => KeyTo(q)' = None
    BY <1>1, <2>2 DEF KeyTo, KeyIn
  <2>6. ValTo(q)' = ValTo(q)
    BY <1>1, <2>1 DEF ValTo
  <2>7. CASE pc[q] = "search"
    <3>1. variant # "packed" /\ empty[q] # Nowhere => KeyTo(q)' = None
      BY <1>0, <2>5, <2>7 DEF TypeOK, Writes
    <3>2. \A pl \in Holding(call[q].key)' : pl[1] > b[q] \/ (pl[1] = b[q] /\ pl[2] >= j[q])
      BY <2>4, <2>7 DEF Writes
    <3> QED
      BY <1>1, <2>7, <3>1, <3>2 DEF Writes
  <2>8. CASE pc[q] = "store" /\ call[q].op = "put"
    <3>1. empty[q] \in Places
      BY <2>8 DEF IndInv, Storing
    <3>2. /\ stores[q] \in Written => ValTo(q) = call[q].val
          /\ variant # "packed" => KeyTo(q) = IF stores[q] = <<"val">> THEN call[q].key ELSE None
          /\ stores[q] \in KeyFirst => variant = "lb" /\ ValTo(q) = Junk
      BY <2>8 DEF Writes
    <3>3. variant # "packed" => KeyTo(q)' = KeyTo(q)
      <4>1. CASE stores[q] = <<"val">>
        BY <1>1, <2>2, <3>2, <4>1 DEF KeyTo, KeyFirst
      <4>2. CASE stores[q] # <<"val">>
        BY <2>5, <3>1, <3>2, <4>2
      <4> QED
        BY <4>1, <4>2
    <3> QED
      BY <1>1, <2>6, <2>8, <3>2, <3>3 DEF Writes, KeyFirst
  <2>9. CASE pc[q] = "store" /\ call[q].op = "remove"
    <3>1. variant # "lock_ins"
      BY <2>9 DEF Outcome
    <3>2. key' = key /\ KeyTo(q)' = KeyTo(q)
      BY <1>1, <2>2, <3>1 DEF KeyTo
    <3>3. stores[q] # << >>
      <4>1. << >> \notin StoresLeft(q)
        BY DEF StoresLeft, PutsAhead, KeyAhead, Removing
      <4> QED
        BY <1>0, <2>9, <4>1 DEF Phase
    <3>4. LastPlace(q)' = LastPlace(q)
      BY <2>3, <3>3
    <3> QED
      BY <1>1, <2>1, <2>6, <2>9, <3>2, <3>4 DEF Writes
  <2>10. CASE pc[q] \notin {"search", "store"}
    BY <1>1, <2>10 DEF Writes
  <2>11. pc[q] = "store" => call[q].op \in {"put", "remove"}
    BY <1>0 DEF Phase
  <2> QED
    BY <2>7, <2>8, <2>9, <2>10, <2>11
<1> QED
  BY <1>2, <1>3

(* The lists of stores of a put, step by step.                              *)
PutStep(s) ==
  \/ s = <<"link", "key", "val">> /\ Head(s) = "link" /\ Tail(s) = <<"key", "val">>
  \/ s = <<"link", "val", "key">> /\ Head(s) = "link" /\ Tail(s) = <<"val", "key">>
  \/ s = <<"key", "val">> /\ Head(s) = "key" /\ Tail(s) = <<"val">>
  \/ s = <<"val", "key">> /\ Head(s) = "val" /\ Tail(s) = <<"key">>
  \/ s = <<"key">> /\ Head(s) = "key" /\ Tail(s) = << >>
  \/ s = <<"val">> /\ Head(s) = "val" /\ Tail(s) = << >>
  \/ s = <<"link", "key", "val", "last">> /\ Head(s) = "link" /\ Tail(s) = <<"key", "val", "last">>
  \/ s = <<"key", "val", "last">> /\ Head(s) = "key" /\ Tail(s) = <<"val", "last">>
  \/ s = <<"val", "last">> /\ Head(s) = "val" /\ Tail(s) = <<"last">>
  \/ s = <<"last">> /\ Head(s) = "last" /\ Tail(s) = << >>
  \/ s = <<"val", "key", "last">> /\ Head(s) = "val" /\ Tail(s) = <<"key", "last">>
  \/ s = <<"key", "last">> /\ Head(s) = "key" /\ Tail(s) = <<"last">>

(* The rest of each list of a put.                                          *)
LEMMA PutSteps == \A s \in KeyAhead \cup {<<"val">>} \cup PutsAhead : PutStep(s)
<1>1. PutStep(<<"link", "key", "val">>)
  BY DEF PutStep
<1>2. PutStep(<<"link", "val", "key">>)
  BY DEF PutStep
<1>3. PutStep(<<"key", "val">>)
  BY DEF PutStep
<1>4. PutStep(<<"val", "key">>)
  BY DEF PutStep
<1>5. PutStep(<<"key">>)
  BY DEF PutStep
<1>6. PutStep(<<"val">>)
  BY DEF PutStep
<1>7. PutStep(<<"link", "key", "val", "last">>)
  BY DEF PutStep
<1>8. PutStep(<<"key", "val", "last">>)
  BY DEF PutStep
<1>9. PutStep(<<"val", "last">>)
  BY DEF PutStep
<1>10. PutStep(<<"last">>)
  BY DEF PutStep
<1>11. PutStep(<<"val", "key", "last">>)
  BY DEF PutStep
<1>12. PutStep(<<"key", "last">>)
  BY DEF PutStep
<1> QED
  BY <1>1, <1>2, <1>3, <1>4, <1>5, <1>6, <1>7, <1>8, <1>9, <1>10, <1>11, <1>12 DEF KeyAhead, PutsAhead

(* Which of them have the value behind them, which write it after the key.  *)
LEMMA Kinds ==
  /\ <<"key", "val">> \notin Written /\ <<"key", "val">> \in KeyFirst /\ <<"key", "val">> # <<"val">>
  /\ <<"val", "key">> \notin Written /\ <<"val", "key">> \notin KeyFirst /\ <<"val", "key">> # <<"val">>
  /\ <<"key">> \in Written /\ <<"key">> \notin KeyFirst /\ <<"key">> # <<"val">>
  /\ <<"val">> \notin Written /\ <<"val">> \in KeyFirst
  /\ <<"key", "val", "last">> \notin Written /\ <<"key", "val", "last">> \notin KeyFirst /\ <<"key", "val", "last">> # <<"val">>
  /\ <<"val", "last">> \notin Written /\ <<"val", "last">> \notin KeyFirst /\ <<"val", "last">> # <<"val">>
  /\ <<"last">> \in Written /\ <<"last">> \notin KeyFirst /\ <<"last">> # <<"val">>
  /\ <<"val", "key", "last">> \notin Written /\ <<"val", "key", "last">> \notin KeyFirst /\ <<"val", "key", "last">> # <<"val">>
  /\ <<"key", "last">> \in Written /\ <<"key", "last">> \notin KeyFirst /\ <<"key", "last">> # <<"val">>
BY DEF Written, KeyFirst

(* The stores of a put: the place has its key, then its value, or first its *)
(* value.                                                                   *)
LEMMA PutWrites ==
  ASSUME IndInv, NEW p \in Threads, Store(p), variant' = variant, Writes(p), call[p].op = "put"
  PROVE  Writes(p)'
<1> DEFINE x == empty[p][1]
           y == empty[p][2]
           rest == Tail(stores[p])
<1>1. /\ pc[p] = "store" /\ x \in Buckets /\ y \in Slots
      /\ variant # "packed" => stores[p] \in KeyAhead \cup {<<"val">>}
      /\ PutStep(stores[p])
  BY StoreEffect, PutSteps DEF StoresLeft
<1>2. /\ stores'[p] = rest /\ UNCHANGED <<call, b, j, empty>>
      /\ pc'[p] = IF rest = << >> THEN "unlock" ELSE "store"
      /\ Head(stores[p]) \in {"link", "val", "last"} => key' = key
      /\ Head(stores[p]) \notin {"val", "moveval"} => val' = val
      /\ key'[x][y] = KeyStored(p, Head(stores[p])) /\ val'[x][y] = ValStored(p, Head(stores[p]))
  BY StorePlaces, StoreValues
<1>3. KeyTo(p)' = key'[x][y] /\ ValTo(p)' = val'[x][y] /\ call'[p] = call[p]
  BY <1>2 DEF KeyTo, ValTo
<1>4. /\ stores[p] \in Written => ValTo(p) = call[p].val
      /\ variant # "packed" => KeyTo(p) = IF stores[p] = <<"val">> THEN call[p].key ELSE None
      /\ stores[p] \in KeyFirst => variant = "lb" /\ ValTo(p) = Junk
  BY <1>1 DEF Writes
<1>5. SUFFICES ASSUME rest # << >>
      PROVE  /\ rest \in Written => val'[x][y] = call[p].val
             /\ variant # "packed" => key'[x][y] = IF rest = <<"val">> THEN call[p].key ELSE None
             /\ rest \in KeyFirst => variant = "lb" /\ val'[x][y] = Junk
  BY <1>2, <1>3 DEF Writes
<1>6. CASE Head(stores[p]) = "link"
  <2>1. key'[x][y] = KeyTo(p) /\ val'[x][y] = ValTo(p)
    BY <1>2, <1>6 DEF KeyTo, ValTo
  <2>2. \/ stores[p] = <<"link", "key", "val">> /\ rest = <<"key", "val">>
        \/ rest = <<"val", "key">> \/ rest = <<"key", "val", "last">>
    BY <1>1, <1>6 DEF PutStep
  <2>3. <<"link", "key", "val">> \in KeyFirst
    BY DEF KeyFirst
  <2>4. stores[p] # <<"val">>
    BY <1>6
  <2> QED
    BY <1>4, <2>1, <2>2, <2>3, <2>4, Kinds
<1>7. CASE Head(stores[p]) = "val"
  <2>1. key'[x][y] = KeyTo(p) /\ val'[x][y] = call[p].val
    BY <1>2, <1>7 DEF KeyTo, ValStored
  <2>2. stores[p] # <<"val">>
    <3>1. Tail(<<"val">>) = << >>
      OBVIOUS
    <3> QED
      BY <1>5, <3>1
  <2>3. rest = <<"key">> \/ rest = <<"key", "last">> \/ rest = <<"last">>
    BY <1>1, <1>7, <2>2 DEF PutStep
  <2> QED
    BY <1>4, <2>1, <2>2, <2>3, Kinds
<1>8. CASE Head(stores[p]) = "key"
  <2>1. key'[x][y] = call[p].key /\ val'[x][y] = ValTo(p)
    BY <1>2, <1>8 DEF KeyStored, ValTo
  <2>2. \/ stores[p] = <<"key", "val">> /\ rest = <<"val">>
        \/ stores[p] = <<"key", "val", "last">> /\ rest = <<"val", "last">>
        \/ stores[p] = <<"key", "last">> /\ rest = <<"last">>
    BY <1>1, <1>5, <1>8 DEF PutStep
  <2>3. <<"key", "val", "last">> \notin KeyAhead \cup {<<"val">>}
        /\ <<"key", "last">> \notin KeyAhead \cup {<<"val">>}
    BY DEF KeyAhead
  <2>4. variant # "packed" => rest = <<"val">>
    BY <1>1, <2>2, <2>3
  <2> QED
    BY <1>4, <2>1, <2>2, <2>4, Kinds
<1>9. CASE Head(stores[p]) = "last"
  BY <1>1, <1>5, <1>9 DEF PutStep
<1> QED
  BY <1>6, <1>7, <1>8, <1>9, StoreOfPut

(* The stores of a remove: the place is cleared, and in a packed chain gets *)
(* the last entry, value first.                                             *)
LEMMA RemoveWrites ==
  ASSUME IndInv, NEW p \in Threads, Store(p), variant' = variant, Writes(p), call[p].op = "remove"
  PROVE  Writes(p)'
<1> DEFINE x == empty[p][1]
           y == empty[p][2]
           rest == Tail(stores[p])
<1>0. {"link", "key", "val", "last", "clear", "moveval", "movekey", "unlast"} \subseteq StoreNames
  BY DEF StoreNames
<1>1. /\ pc[p] = "store" /\ x \in Buckets /\ y \in Slots /\ First(stores[p])
      /\ stores[p] \in StoresLeft(p) /\ empty[p] = <<x, y>>
  BY StoreEffect
<1>2. /\ stores'[p] = rest /\ UNCHANGED <<call, b, j, empty>>
      /\ pc'[p] = IF rest = << >> THEN "unlock" ELSE "store"
      /\ Head(stores[p]) = "moveval" => key' = key
      /\ Head(stores[p]) \notin {"val", "moveval"} => val' = val
      /\ Head(stores[p]) # "link" => linked' = linked
      /\ Head(stores[p]) \notin {"last", "unlast"} => last' = last
      /\ key'[x][y] = KeyStored(p, Head(stores[p])) /\ val'[x][y] = ValStored(p, Head(stores[p]))
      /\ \A z \in Buckets, w \in Slots : <<z, w>> # empty[p] =>
           key'[z][w] = key[z][w] /\ val'[z][w] = val[z][w]
  BY StorePlaces, StoreValues
<1>3. KeyTo(p)' = key'[x][y] /\ ValTo(p)' = val'[x][y] /\ call'[p] = call[p]
  BY <1>2 DEF KeyTo, ValTo
<1>4. /\ Head(stores[p]) = "clear" => KeyTo(p) = call[p].key /\ ValTo(p) = ret[p]
      /\ Head(stores[p]) \in {"moveval", "movekey"} => KeyTo(p) = None
      /\ Head(stores[p]) \in {"movekey", "unlast"} => ValTo(p) = val[LastPlace(p)[1]][LastPlace(p)[2]]
  BY <1>1 DEF Writes
<1>5. Head(stores[p]) \in {"clear", "moveval", "movekey", "unlast"}
  BY <1>1, StoreOfPut DEF First
<1>6. SUFFICES ASSUME rest # << >>
      PROVE  /\ Head(rest) \notin {"clear"}
             /\ Head(rest) \in {"moveval", "movekey"} => key'[x][y] = None
             /\ Head(rest) \in {"movekey", "unlast"} =>
                  val'[x][y] = val'[LastPlace(p)'[1]][LastPlace(p)'[2]]
             /\ Head(rest) = "unlast" =>
                  /\ key'[x][y] = key'[LastPlace(p)'[1]][LastPlace(p)'[2]]
                  /\ empty[p] = LastPlace(p)' => key'[x][y] = None
  BY <1>2, <1>3 DEF Writes
<1>7. CASE Head(stores[p]) = "clear"
  <2>1. rest = <<"moveval", "movekey", "unlast">>
    <3>1. Tail(<<"clear">>) = << >>
      OBVIOUS
    <3> QED
      BY <1>1, <1>6, <1>7, <3>1 DEF First
  <2>2. Head(rest) = "moveval"
    <3>1. Head(<<"moveval", "movekey", "unlast">>) = "moveval"
      OBVIOUS
    <3> QED
      BY <2>1, <3>1
  <2>3. key'[x][y] = None
    BY <1>2, <1>7 DEF KeyStored
  <2> QED
    BY <2>2, <2>3
<1>8. CASE Head(stores[p]) \in {"moveval", "movekey"}
  <2>1. PICK e \in Buckets : LastBucket(p) = e /\ last[e] \in Slots /\ LastPlace(p) = <<e, last[e]>>
    BY <1>8, MoveState
  <2>2. UNCHANGED <<linked, last, b>>
    BY <1>2, <1>8
  <2>3. LastPlace(p)' = LastPlace(p)
    BY <2>2 DEF LastPlace, LastBucket
  <2>4. LastPlace(p)[1] = e /\ LastPlace(p)[2] = last[e]
    BY <2>1
  <2>5. CASE Head(stores[p]) = "moveval"
    <3>1. Head(rest) = "movekey"
      BY <1>1, <2>5 DEF First
    <3>2. key'[x][y] = None
      BY <1>2, <1>4, <2>5 DEF KeyTo
    <3>3. val'[x][y] = val[e][last[e]]
      BY <1>2, <2>1, <2>5 DEF ValStored
    <3>4. val'[e][last[e]] = val[e][last[e]]
      <4>1. CASE <<e, last[e]>> = empty[p]
        BY <1>1, <3>3, <4>1
      <4>2. CASE <<e, last[e]>> # empty[p]
        BY <1>2, <2>1, <4>2
      <4> QED
        BY <4>1, <4>2
    <3> QED
      BY <2>3, <2>4, <3>1, <3>2, <3>3, <3>4
  <2>6. CASE Head(stores[p]) = "movekey"
    <3>1. Head(rest) = "unlast"
      BY <1>1, <2>6 DEF First
    <3>2. key'[x][y] = key[e][last[e]]
      BY <1>2, <2>1, <2>6 DEF KeyStored
    <3>3. key'[e][last[e]] = key[e][last[e]]
      <4>1. CASE <<e, last[e]>> = empty[p]
        BY <1>1, <3>2, <4>1
      <4>2. CASE <<e, last[e]>> # empty[p]
        BY <1>2, <2>1, <4>2
      <4> QED
        BY <4>1, <4>2
    <3>4. val'[x][y] = val[e][last[e]] /\ val' = val
      BY <1>2, <1>4, <2>4, <2>6 DEF ValTo
    <3>5. empty[p] = LastPlace(p) => key'[x][y] = None
      BY <1>1, <1>4, <2>1, <2>6, <3>2 DEF KeyTo
    <3> QED
      BY <2>3, <2>4, <3>1, <3>2, <3>3, <3>4, <3>5
  <2> QED
    BY <1>8, <2>5, <2>6
<1>9. CASE Head(stores[p]) = "unlast"
  BY <1>1, <1>6, <1>9 DEF First
<1> QED
  BY <1>5, <1>7, <1>8, <1>9

(* The places of an entry, as numbers.                                      *)
LEMMA HeldPlace ==
  ASSUME TypeOK, NEW k, NEW pl \in Holding(k)
  PROVE  /\ pl \in Places /\ pl = <<pl[1], pl[2]>> /\ pl[1] \in Buckets /\ pl[2] \in Slots
         /\ pl[1] \in Nat /\ pl[2] \in Nat /\ pl[1] >= 1 /\ pl[2] >= 1 /\ pl[1] <= linked
         /\ pl[2] <= ENTRIES_PER_BUCKET /\ (variant = "packed" => pl[2] <= last[pl[1]])
         /\ KeyIn(pl) = k
<1>1. pl \in Places /\ Used(pl[1], pl[2]) /\ KeyIn(pl) = k
  BY DEF Holding, KeyIn
<1> QED
  BY <1>1, Bounds, SizesAssumption DEF Used, Slots, Buckets

(* The numbers of a thread's place in the chain.                            *)
LEMMA Cursor ==
  ASSUME TypeOK, NEW p \in Threads
  PROVE  /\ b[p] \in Buckets /\ b[p] \in Nat /\ b[p] >= 1 /\ j[p] \in Nat /\ j[p] >= 1
         /\ linked \in Nat /\ linked >= 1 /\ linked <= MaxBuckets /\ MaxBuckets \in Nat
         /\ \A x \in Buckets : last[x] \in 0..ENTRIES_PER_BUCKET /\ last[x] \in Nat
BY SizesAssumption DEF TypeOK, Buckets

(* A place that is not before slot y of bucket x.                           *)
Beyond(pl, x, y) == pl[1] > x \/ (pl[1] = x /\ pl[2] >= y)

(* One slot further on, for a key that is not in this one.                  *)
LEMMA NextSlot ==
  ASSUME TypeOK, NEW p \in Threads, NEW pl \in Holding(call[p].key), Beyond(pl, b[p], j[p]),
         KeyAt(p) # call[p].key
  PROVE  Beyond(pl, b[p], j[p] + 1)
<1>1. ~(pl[1] = b[p] /\ pl[2] = j[p])
  BY HeldPlace DEF KeyAt, KeyIn
<1> QED
  BY <1>1, HeldPlace, Cursor DEF Beyond

(* One bucket further on, for a key that is not in this one.                *)
LEMMA NextBucket ==
  ASSUME TypeOK, NEW p \in Threads, NEW pl \in Holding(call[p].key), Beyond(pl, b[p], j[p]),
         j[p] > Limit(p)
  PROVE  pl[1] > b[p] /\ Beyond(pl, b[p] + 1, 1)
<1>1. pl[1] # b[p]
  BY HeldPlace, Cursor, SizesAssumption DEF Beyond, Limit
<1> QED
  BY <1>1, HeldPlace, Cursor DEF Beyond

(* At the end of the chain a search under the lock has found no entry.      *)
LEMMA NotFound ==
  ASSUME IndInv, NEW p \in Threads, Writes(p), pc[p] = "search", j[p] > Limit(p),
         ~(Full(p) /\ b[p] < linked)
  PROVE  Holding(call[p].key) = {}
<1>0. TypeOK /\ Searching(p) /\ Filled
  BY DEF IndInv
<1>1. ASSUME NEW pl \in Holding(call[p].key) PROVE FALSE
  <2>1. Beyond(pl, b[p], j[p])
    BY <1>1 DEF Writes, Beyond
  <2>2. pl[1] > b[p] /\ pl[1] <= linked /\ pl[1] \in Nat
    BY <1>0, <2>1, NextBucket, HeldPlace
  <2>3. ~Full(p) /\ variant = "packed"
    BY <1>0, <2>2, Cursor DEF Full
  <2>4. PICK e \in 1..linked : FilledTo(e)
    BY <1>0, <2>3 DEF Filled
  <2>5. b[p] >= e
    BY <1>0, <2>3, <2>4, Cursor DEF FilledTo, Full
  <2>6. pl[1] \in (e + 1)..MaxBuckets
    BY <1>0, <2>2, <2>4, <2>5, Cursor
  <2>7. last[pl[1]] = 0
    BY <2>4, <2>6 DEF FilledTo
  <2> QED
    BY <1>0, <2>3, <2>7, HeldPlace
<1> QED
  BY <1>1

(* A put that has searched stores what the variant stores.                  *)
LEMMA PutsBegin ==
  ASSUME IndInv, NEW f \in {TRUE, FALSE}
  PROVE  /\ PutStores(f) \notin Written /\ PutStores(f) # <<"val">> /\ PutStores(f) # << >>
         /\ PutStores(f) \in KeyFirst => f /\ variant = "lb"
<1>1. variant \in {"lb", "packed", "lock_ins"}
  BY VariantsAssumption DEF IndInv, TypeOK
<1>2. /\ <<"link", "key", "val", "last">> \notin Written /\ <<"link", "key", "val", "last">> # <<"val">>
      /\ <<"link", "key", "val", "last">> \notin KeyFirst /\ <<"link", "key", "val", "last">> # << >>
  BY DEF Written, KeyFirst
<1>3. /\ <<"link", "val", "key">> \notin Written /\ <<"link", "val", "key">> # <<"val">>
      /\ <<"link", "val", "key">> \notin KeyFirst /\ <<"link", "val", "key">> # << >>
  BY DEF Written, KeyFirst
<1>4. /\ <<"link", "key", "val">> \notin Written /\ <<"link", "key", "val">> # <<"val">>
      /\ <<"link", "key", "val">> # << >> /\ <<"val", "key">> # << >> /\ <<"val", "key", "last">> # << >>
  BY DEF Written
<1>5. CASE f
  BY <1>1, <1>2, <1>3, <1>4, <1>5 DEF PutStores
<1>6. CASE ~f
  BY <1>1, <1>4, <1>6, Kinds DEF PutStores
<1> QED
  BY <1>5, <1>6

(* A thread that does not store knows its search.                           *)
LEMMA SearchWrites ==
  ASSUME IndInv, NEW p \in Threads, Invoke(p) \/ Work(p), variant' = variant, ~Store(p),
         Writes(p), FreshValues
  PROVE  Writes(p)'
<1>0. TypeOK /\ Phase(p) /\ Searching(p) /\ Fresh
  BY DEF IndInv
<1>1. Shrinks /\ pc[p] # "store" /\ val' = val
  BY ShrinkStep, ValueStays
<1>2. CASE pc'[p] \notin {"search", "store"}
  BY <1>2 DEF Writes
<1>3. ASSUME UNCHANGED <<call, key>>, call[p].key \in Keys
      PROVE  Holding(call[p].key)' = Holding(call[p].key)
  BY <1>1, <1>3 DEF Holding, Used, Shrinks
<1>4. CASE Lock(p)
  <2>1. pc'[p] = "search" /\ b'[p] = 1 /\ j'[p] = 1 /\ pc[p] = "lock"
        /\ UNCHANGED <<linked, key, last, call, empty, stores>>
    BY <1>4, <1>0 DEF Lock, At, Goto, TypeOK
  <2>2. empty[p] = Nowhere /\ call[p].key \in Keys
    BY <2>1, <1>0, CallTypes DEF Phase
  <2>3. \A pl \in Holding(call[p].key) : pl[1] > 1 \/ (pl[1] = 1 /\ pl[2] >= 1)
    BY <1>0, HeldPlace
  <2> QED
    BY <1>3, <2>1, <2>2, <2>3 DEF Writes
<1>5. CASE SearchPut(p)
  <2>1. /\ pc[p] = "search" /\ call[p] \in Calls /\ call[p].key \in Keys
        /\ j[p] <= Limit(p) /\ UNCHANGED <<linked, key, last, call, b, stores>>
    BY <1>5, <1>0, CallTypes DEF SearchPut, Phase, table
  <2>2. CASE pc'[p] = "unlock"
    BY <2>2 DEF Writes
  <2>3. CASE pc'[p] # "unlock"
    <3>1. /\ KeyAt(p) # call[p].key /\ UNCHANGED pc /\ j'[p] = j[p] + 1
          /\ empty'[p] = IF empty[p] = Nowhere /\ KeyAt(p) = None THEN <<b[p], j[p]>> ELSE empty[p]
      BY <1>5, <2>3, <1>0 DEF SearchPut, Goto, TypeOK
    <3>2. variant # "packed" /\ empty'[p] # Nowhere => key[empty'[p][1]][empty'[p][2]] = None
      BY <2>1, <3>1 DEF Writes, KeyTo, KeyAt, None
    <3>3. KeyTo(p)' = key[empty'[p][1]][empty'[p][2]]
      BY <2>1 DEF KeyTo
    <3>4. \A pl \in Holding(call[p].key) : pl[1] > b[p] \/ (pl[1] = b[p] /\ pl[2] >= j[p] + 1)
      BY <1>0, <2>1, <3>1, NextSlot DEF Writes, Beyond
    <3> QED
      BY <1>1, <1>3, <2>1, <3>1, <3>2, <3>3, <3>4 DEF Writes
  <2> QED
    BY <2>2, <2>3
<1>6. CASE SearchOn(p)
  <2>1. /\ pc[p] = "search" /\ pc'[p] = "search" /\ call[p] \in Calls /\ call[p].key \in Keys
        /\ j[p] > Limit(p) /\ b'[p] = b[p] + 1 /\ j'[p] = 1
        /\ UNCHANGED <<linked, key, last, call, empty, stores>>
    BY <1>6, <1>0, CallTypes DEF SearchOn, Phase, At, TypeOK, table
  <2>2. \A pl \in Holding(call[p].key) : pl[1] > b[p] + 1 \/ (pl[1] = b[p] + 1 /\ pl[2] >= 1)
    BY <1>0, <2>1, NextBucket DEF Writes, Beyond
  <2>3. KeyTo(p)' = KeyTo(p)
    BY <2>1 DEF KeyTo
  <2> QED
    BY <1>1, <1>3, <2>1, <2>2, <2>3 DEF Writes
<1>7. CASE SearchEnds(p) /\ pc'[p] = "store"
  <2> DEFINE free == IF variant = "packed" /\ ~Full(p) THEN <<b[p], j[p]>> ELSE empty[p]
  <2>0. /\ pc[p] = "search" /\ UNCHANGED <<key, call>> /\ call[p].op \in {"put", "remove"}
    BY <1>7, <1>0 DEF SearchEnds, Phase, table
  <2>10. call[p].op = "put"
    BY <1>7, <1>0, <2>0 DEF SearchEnds, Goto, TypeOK
  <2>1. /\ stores'[p] = PutStores(free = Nowhere)
        /\ empty'[p] = IF free = Nowhere THEN <<linked + 1, 1>> ELSE free
        /\ free = Nowhere => linked < MaxBuckets
    BY <1>7, <1>0, <2>10 DEF SearchEnds, Goto, TypeOK
  <2>2. KeyTo(p)' = key[empty'[p][1]][empty'[p][2]] /\ ValTo(p)' = val[empty'[p][1]][empty'[p][2]]
    BY <1>1, <2>0, <2>1 DEF KeyTo, ValTo
  <2>3. variant # "packed" => KeyTo(p)' = None
    <3>1. CASE free = Nowhere
      <4>1. linked + 1 \in (linked + 1)..MaxBuckets /\ 1 \in Slots
        BY <1>0, <2>1, <3>1, Cursor, Bounds
      <4>2. key[linked + 1][1] = None
        BY <1>0, <4>1 DEF Fresh
      <4> QED
        BY <2>0, <2>1, <2>2, <3>1, <4>2
    <3>2. CASE free # Nowhere
      BY <2>0, <2>1, <2>2, <3>2 DEF Writes, KeyTo
    <3> QED
      BY <3>1, <3>2
  <2>4. free = Nowhere => ValTo(p)' = Junk
    <3> SUFFICES ASSUME free = Nowhere PROVE ValTo(p)' = Junk
      OBVIOUS
    <3>1. linked + 1 \in (linked + 1)..MaxBuckets /\ 1 \in Slots
      BY <1>0, <2>1, Cursor, Bounds
    <3>2. val[linked + 1][1] = Junk
      BY <3>1 DEF FreshValues
    <3> QED
      BY <2>1, <2>2, <3>2
  <2>5. /\ stores'[p] \notin Written /\ stores'[p] # <<"val">>
        /\ stores'[p] \in KeyFirst => free = Nowhere /\ variant = "lb"
    BY <2>1, PutsBegin
  <2> HIDE DEF free
  <2>6. call'[p] = call[p]
    BY <2>0
  <2> QED
    BY <1>1, <1>7, <2>0, <2>10, <2>3, <2>4, <2>5, <2>6 DEF Writes
<1>8. CASE SearchRemove(p)
  <2>1. /\ pc[p] = "search" /\ call[p].op = "remove" /\ call[p] \in Calls /\ call[p].key \in Keys
        /\ j[p] <= Limit(p) /\ UNCHANGED <<linked, key, last, call, b>>
    BY <1>8, <1>0, CallTypes DEF SearchRemove, Phase, table
  <2>2. CASE KeyAt(p) # call[p].key
    <3>1. UNCHANGED <<pc, empty>> /\ j'[p] = j[p] + 1
      BY <1>8, <2>2, <1>0 DEF SearchRemove, TypeOK
    <3>2. \A pl \in Holding(call[p].key) : pl[1] > b[p] \/ (pl[1] = b[p] /\ pl[2] >= j[p] + 1)
      BY <1>0, <2>1, <2>2, NextSlot DEF Writes, Beyond
    <3>3. KeyTo(p)' = KeyTo(p)
      BY <2>1, <3>1 DEF KeyTo
    <3> QED
      BY <1>1, <1>3, <2>1, <3>1, <3>2, <3>3 DEF Writes
  <2>3. CASE KeyAt(p) = call[p].key
    <3>1. /\ pc'[p] = "store" /\ empty'[p] = <<b[p], j[p]>> /\ ret'[p] = ValAt(p)
          /\ stores'[p] = IF variant = "packed" THEN <<"clear", "moveval", "movekey", "unlast">>
                                               ELSE <<"clear">>
      BY <1>8, <2>3, <1>0 DEF SearchRemove, Goto, TypeOK
    <3>2. Head(stores'[p]) = "clear"
      <4>1. {"clear", "moveval", "movekey", "unlast"} \subseteq StoreNames
        BY DEF StoreNames
      <4> QED
        BY <3>1, <4>1, Lists
    <3>3. empty'[p][1] = b[p] /\ empty'[p][2] = j[p]
      BY <3>1
    <3>4. KeyTo(p)' = KeyAt(p) /\ ValTo(p)' = ValAt(p)
      BY <1>1, <2>1, <3>3 DEF KeyTo, ValTo, KeyAt, ValAt
    <3>5. call'[p] = call[p]
      BY <2>1
    <3> QED
      BY <2>1, <2>3, <3>1, <3>2, <3>4, <3>5 DEF Writes
  <2> QED
    BY <2>2, <2>3
<1>9. CASE SearchEnds(p) /\ pc'[p] # "store"
  <2>1. pc'[p] \in {"unlock", "store"}
    BY <1>0, <1>9 DEF SearchEnds, Goto, TypeOK
  <2> QED
    BY <1>2, <1>9, <2>1
<1>10. CASE Invoke(p) \/ Return(p) \/ Unlock(p) \/ clht_get(p) \/ bucket_exists(p)
            \/ Block(p) \/ Take(p) \/ Free(p)
  <2>1. pc'[p] \notin {"search", "store"}
    <3>1. CASE Invoke(p) \/ Return(p) \/ Unlock(p) \/ clht_get(p)
      BY <3>1, <1>0 DEF Invoke, Begin, Return, Unlock, clht_get, LookVal, LookAgain, Goto, TypeOK
    <3>2. CASE bucket_exists(p)
      BY <3>2, <1>0 DEF bucket_exists, ReadLast, LookKey, Found, Advance, Missing, Goto, TypeOK
    <3>3. CASE Block(p) \/ Take(p) \/ Free(p)
      BY <3>3, <1>0 DEF Block, Take, Free, Goto, TypeOK
    <3> QED
      BY <3>1, <3>2, <3>3, <1>10
  <2> QED
    BY <1>2, <2>1
<1> QED
  BY <1>4, <1>5, <1>6, <1>7, <1>8, <1>9, <1>10 DEF Work, clht_put, clht_remove

(* Every step leaves each thread with what it knows.                        *)
LEMMA WritesStep ==
  ASSUME IndInv, AnswersInv, Next
  PROVE  AllWrites'
<1>1. PICK p \in Threads : Invoke(p) \/ Work(p)
  BY DEF Next
<1>2. variant' = variant
  BY DEF Next
<1>3. ASSUME NEW q \in Threads PROVE Writes(q)'
  <2>1. Writes(q) /\ Outcome(q) /\ Writes(p) /\ Outcome(p) /\ Blocks(p) /\ FreshValues
    BY DEF AnswersInv
  <2>2. CASE q # p
    BY <1>1, <1>2, <2>1, <2>2, OthersWrite
  <2>3. CASE q = p /\ Store(p)
    <3>1. call[p].op \in {"put", "remove"}
      BY <2>3, StoreEffect
    <3> QED
      BY <1>2, <2>1, <2>3, <3>1, PutWrites, RemoveWrites
  <2>4. CASE q = p /\ ~Store(p)
    BY <1>1, <1>2, <2>1, <2>4, SearchWrites
  <2> QED
    BY <2>2, <2>3, <2>4
<1> QED
  BY <1>3 DEF AllWrites

-----------------------------------------------------------------------------
(* The removes of lock_ins.  What each of them does to its place.           *)
LEMMA Blocked ==
  ASSUME TypeOK, NEW p \in Threads, Invoke(p) \/ Work(p), pc'[p] \in {"take", "free"}
  PROVE  /\ Take(p) \/ (Block(p) /\ KeyAt(p) = call[p].key)
         /\ b' = b /\ j' = j
<1>1. Take(p) \/ Block(p)
  <2>1. (pc'[p] # "take" /\ pc'[p] # "free") \/ Block(p) \/ Take(p)
    <3>1. CASE Invoke(p) \/ Return(p) \/ Unlock(p) \/ clht_get(p) \/ Lock(p) \/ Free(p) \/ Store(p)
      BY <3>1 DEF Invoke, Begin, Return, Unlock, clht_get, LookVal, LookAgain, Lock, Free, Store,
         Goto, TypeOK
    <3>2. CASE bucket_exists(p)
      BY <3>2 DEF bucket_exists, ReadLast, LookKey, Found, Advance, Missing, Goto, TypeOK
    <3>3. CASE clht_put(p) \/ SearchRemove(p)
      BY <3>3 DEF clht_put, SearchPut, SearchOn, SearchEnds, SearchRemove, Goto, TypeOK
    <3> QED
      BY <3>1, <3>2, <3>3 DEF Work, clht_remove
  <2> QED
    BY <2>1
<1> QED
  BY <1>1 DEF Take, Block, Goto, TypeOK, locals

(* A place that a remove has blocked is left alone by the others.           *)
LEMMA BlockedStays ==
  ASSUME IndInv, NEW p \in Threads, Invoke(p) \/ Work(p), Writes(p), NEW q \in Threads, q # p,
         pc[q] \in {"take", "free"}, Blocks(p), Blocks(q), Outcome(p)
  PROVE  KeyAt(q)' = KEY_BLCK /\ ValAt(q)' = ValAt(q)
<1>0. TypeOK /\ Phase(q)
  BY DEF IndInv
<1>1. /\ variant = "lock_ins" /\ b[q] \in Buckets /\ j[q] \in Slots /\ KeyAt(q) = KEY_BLCK
      /\ b'[q] = b[q] /\ j'[q] = j[q]
  BY <1>0, OthersStay DEF Phase, TypeOK, Blocks
<1>2. CASE Store(p)
  <2>1. /\ call[p].op = "put" /\ stores[p] \in StoresLeft(p) /\ pc[p] = "store"
    <3>1. call[p].op \in {"put", "remove"} /\ stores[p] \in StoresLeft(p) /\ pc[p] = "store"
      BY <1>2, StoreEffect
    <3> QED
      BY <1>1, <3>1 DEF Outcome
  <2>2. KeyTo(p) = None
    BY <1>1, <2>1, Kinds DEF Writes
  <2>3. KEY_BLCK # None
    BY DEF KEY_BLCK, None
  <2>4. <<b[q], j[q]>> # empty[p]
    BY <1>1, <2>2, <2>3 DEF KeyTo, KeyAt
  <2>5. key'[b[q]][j[q]] = key[b[q]][j[q]] /\ val'[b[q]][j[q]] = val[b[q]][j[q]]
    BY <1>1, <1>2, <2>4, StorePlaces, StoreValues
  <2> QED
    BY <1>1, <2>5 DEF KeyAt, ValAt
<1>3. CASE ~Store(p)
  <2>1. val' = val
    BY <1>3, ValueStays
  <2>2. PICK pl \in Places : pl = <<b[q], j[q]>>
    BY <1>1, Bounds
  <2>3. KeyIn(pl) = KeyAt(q) /\ KeyIn(pl)' = KeyAt(q)'
    BY <1>1, <2>2 DEF KeyIn, KeyAt
  <2>4. CASE key' = key
    BY <1>1, <2>1, <2>4 DEF KeyAt, ValAt
  <2>5. CASE Block(p) /\ KeyAt(p) = call[p].key
    <3>1. KeyAt(p) # KEY_BLCK
      <4>1. call[p] \in Calls
        BY <1>0, <2>5 DEF IndInv, Phase, Block
      <4> QED
        BY <2>5, <4>1, CallTypes DEF KEY_BLCK
    <3>2. pl # <<b[p], j[p]>>
      BY <1>1, <2>2, <3>1 DEF KeyAt
    <3>3. KeyAt(q)' = KeyAt(q)
      BY <1>3, <2>2, <2>3, <3>2, KeyStays
    <3> QED
      BY <1>1, <2>1, <3>3 DEF ValAt
  <2>6. CASE Free(p)
    <3>1. pc[p] = "free"
      BY <2>6 DEF Free
    <3>2. pl # <<b[p], j[p]>>
      BY <2>2, <3>1 DEF Blocks
    <3>3. KeyAt(q)' = KeyAt(q)
      BY <1>3, <2>2, <2>3, <3>2, KeyStays
    <3> QED
      BY <1>1, <2>1, <3>3 DEF ValAt
  <2> QED
    BY <1>3, <2>4, <2>5, <2>6, KeyStays
<1> QED
  BY <1>2, <1>3

(* A blocked place belongs to one remove.                                   *)
LEMMA BlocksStep ==
  ASSUME IndInv, AnswersInv, Next
  PROVE  \A q \in Threads : Blocks(q)'
<1>1. PICK p \in Threads : Invoke(p) \/ Work(p)
  BY DEF Next
<1>2. TypeOK /\ \A q \in Threads : Blocks(q) /\ Writes(q) /\ Phase(q) /\ Outcome(q)
  BY DEF IndInv, AnswersInv
<1>3. ASSUME NEW q \in Threads, q # p, pc'[q] \in {"take", "free"}
      PROVE  /\ pc[q] \in {"take", "free"} /\ b'[q] = b[q] /\ j'[q] = j[q]
             /\ KeyAt(q) = KEY_BLCK /\ KeyAt(q)' = KEY_BLCK
  <2>1. pc[q] \in {"take", "free"} /\ b'[q] = b[q] /\ j'[q] = j[q]
    BY <1>1, <1>2, <1>3, OthersStay
  <2> QED
    BY <1>1, <1>2, <1>3, <2>1, BlockedStays DEF Blocks
<1>4. ASSUME pc'[p] \in {"take", "free"}
      PROVE  /\ b'[p] = b[p] /\ j'[p] = j[p] /\ KeyAt(p)' = KEY_BLCK
             /\ pc[p] = "take" \/ KeyAt(p) # KEY_BLCK
  <2>1. Take(p) \/ (Block(p) /\ KeyAt(p) = call[p].key)
    BY <1>1, <1>2, <1>4, Blocked
  <2>2. b' = b /\ j' = j
    BY <1>1, <1>2, <1>4, Blocked
  <2>3. CASE Take(p)
    BY <1>2, <2>2, <2>3 DEF Take, table, KeyAt, Blocks
  <2>4. CASE Block(p) /\ KeyAt(p) = call[p].key
    <3>1. b[p] \in Buckets /\ j[p] \in Slots /\ call[p] \in Calls
      BY <1>2, <2>4 DEF Block, Phase, TypeOK
    <3>2. key' = [key EXCEPT ![b[p]][j[p]] = KEY_BLCK]
      BY <2>4 DEF Block
    <3>3. KeyAt(p)' = KEY_BLCK
      BY <1>2, <2>2, <3>1, <3>2 DEF KeyAt, TypeOK
    <3>4. KeyAt(p) # KEY_BLCK
      BY <2>4, <3>1, CallTypes DEF KEY_BLCK
    <3> QED
      BY <2>2, <3>3, <3>4
  <2> QED
    BY <2>1, <2>3, <2>4
<1>5. ASSUME NEW q \in Threads, NEW r \in Threads, q # r, pc'[q] \in {"take", "free"},
             pc'[r] \in {"take", "free"}, b'[r] = b'[q], j'[r] = j'[q]
      PROVE  FALSE
  <2>1. ASSUME NEW x \in Threads, x # p, pc'[x] \in {"take", "free"}, pc'[p] \in {"take", "free"},
               b'[x] = b'[p], j'[x] = j'[p]
        PROVE  FALSE
    <3>1. KeyAt(x) = KEY_BLCK /\ b[x] = b[p] /\ j[x] = j[p] /\ pc[x] \in {"take", "free"}
      BY <1>3, <1>4, <2>1
    <3>2. pc[p] = "take"
      BY <1>4, <2>1, <3>1 DEF KeyAt
    <3> QED
      BY <1>2, <2>1, <3>1, <3>2 DEF Blocks
  <2>2. CASE q # p /\ r # p
    BY <1>2, <1>3, <1>5, <2>2 DEF Blocks
  <2> QED
    BY <1>5, <2>1, <2>2
<1> QED
  BY <1>3, <1>4, <1>5 DEF Blocks

-----------------------------------------------------------------------------
(* Where values come from.  A call counts its put when it begins, and stays *)
(* until it returns.                                                        *)
LEMMA CallStays ==
  ASSUME NEW p \in Threads, Work(p)
  PROVE  /\ puts' = puts /\ (~Return(p) => call' = call)
         /\ call' = call \/ call' = [call EXCEPT ![p] = Idle]
<1> USE DEF Return, clht_get, LookVal, LookAgain, bucket_exists, ReadLast, LookKey,
   Lock, Unlock, clht_put, SearchPut, SearchOn, SearchEnds, Store, clht_remove, SearchRemove, Block,
   Take, Free, table, locals
<1>1. puts' = puts
  BY DEF Work
<1>2. ~Return(p) => call' = call
  BY DEF Work
<1>3. call' = call \/ call' = [call EXCEPT ![p] = Idle]
  BY DEF Work
<1> QED
  BY <1>1, <1>2, <1>3

(* A put whose value is still to come was one before.                       *)
LEMMA PendingStays ==
  ASSUME IndInv, NEW p \in Threads, Work(p), variant' = variant, Outcome(p), NEW q \in Threads,
         Pending(q)'
  PROVE  Pending(q) /\ call'[q] = call[q]
<1>0. TypeOK /\ Phase(p)
  BY DEF IndInv
<1>1. CASE q # p
  BY <1>0, <1>1, OthersStay DEF Pending
<1>2. CASE q = p
  <2>1. ~Return(p)
    BY <1>0, <1>2 DEF Pending, Return, Goto, TypeOK
  <2>2. call' = call /\ call[p].op = "put"
    BY <1>2, <2>1, CallStays DEF Pending
  <2>3. << >> \notin Written
    BY DEF Written
  <2>4. CASE Store(p)
    <3>1. /\ pc[p] = "store" /\ PutStep(stores[p]) /\ stores'[p] = Tail(stores[p])
          /\ pc'[p] = IF Tail(stores[p]) = << >> THEN "unlock" ELSE "store"
      BY <2>2, <2>4, StoreEffect, StorePlaces, PutSteps DEF StoresLeft
    <3>2. stores[p] \notin Written
      <4>1. stores'[p] \notin Written /\ stores'[p] # << >>
        BY <1>2, <3>1 DEF Pending
      <4>2. Tail(<<"key">>) = << >> /\ Tail(<<"last">>) = << >> /\ Tail(<<"key", "last">>) = <<"last">>
        OBVIOUS
      <4> QED
        BY <3>1, <4>1, <4>2 DEF Written
    <3> QED
      BY <1>2, <2>2, <3>1, <3>2 DEF Pending
  <2>5. CASE ~Store(p)
    <3>1. pc[p] # "store" /\ stores[p] = << >>
      BY <1>0, <2>5, ShrinkStep DEF Phase
    <3>2. pc'[p] \in {"last", "look", "lock", "search", "store"}
      BY <1>2 DEF Pending
    <3>3. pc[p] \in {"last", "look", "lock", "search"}
      <4>1. CASE bucket_exists(p)
        BY <2>2, <4>1 DEF bucket_exists, ReadLast, LookKey
      <4>2. CASE Lock(p) \/ clht_put(p)
        BY <4>2 DEF Lock, clht_put, SearchPut, SearchOn, SearchEnds
      <4>3. CASE clht_get(p) \/ Unlock(p) \/ clht_remove(p)
        BY <1>0, <2>2, <3>2, <4>3 DEF clht_get, LookVal, LookAgain, Unlock, clht_remove,
           SearchRemove, Block, Take, Free, Goto, TypeOK
      <4> QED
        BY <2>1, <2>5, <4>1, <4>2, <4>3 DEF Work
    <3> QED
      BY <1>2, <2>2, <2>3, <3>1, <3>3 DEF Pending
  <2> QED
    BY <2>4, <2>5
<1> QED
  BY <1>1, <1>2

(* A place keeps its value, gets that of a put, or another's.               *)
LEMMA ValueFrom ==
  ASSUME IndInv, NEW p \in Threads, Invoke(p) \/ Work(p), NEW pl \in Places
  PROVE  \/ ValIn(pl)' = ValIn(pl)
         \/ /\ Store(p) /\ Head(stores[p]) = "val" /\ pl = empty[p] /\ ValIn(pl)' = call[p].val
            /\ Pending(p) /\ ~Pending(p)' /\ (variant = "packed" => ~Used(pl[1], pl[2]))
         \/ /\ Store(p) /\ Head(stores[p]) = "moveval" /\ pl = empty[p] /\ variant = "packed"
            /\ \E o \in Places : o = LastPlace(p) /\ ValIn(pl)' = ValIn(o)
<1>0. TypeOK
  BY DEF IndInv
<1>1. CASE ~Store(p)
  BY <1>1, ValueStays DEF ValIn
<1>2. CASE Store(p)
  <2>1. pl = <<pl[1], pl[2]>> /\ pl[1] \in Buckets /\ pl[2] \in Slots
    BY Bounds
  <2>2. CASE pl # empty[p] \/ Head(stores[p]) \notin {"val", "moveval"}
    BY <1>2, <2>1, <2>2, StoreValues DEF ValIn
  <2>3. CASE pl = empty[p] /\ Head(stores[p]) = "val"
    <3>1. ValIn(pl)' = call[p].val
      BY <1>2, <2>3, StoreValues DEF ValIn, ValStored
    <3>2. /\ call[p].op = "put" /\ pc[p] = "store" /\ PutStep(stores[p])
          /\ stores'[p] = Tail(stores[p]) /\ Storing(p)
          /\ pc'[p] = IF Tail(stores[p]) = << >> THEN "unlock" ELSE "store"
      BY <1>2, <2>3, StoreEffect, StorePlaces, StoreOfPut, PutSteps DEF StoresLeft
    <3>3. stores[p] \notin Written
      <4>1. Head(<<"key">>) = "key" /\ Head(<<"last">>) = "last" /\ Head(<<"key", "last">>) = "key"
        OBVIOUS
      <4> QED
        BY <2>3, <4>1 DEF Written
    <3>4. Tail(stores[p]) \in Written \cup {<< >>}
      <4>1. Tail(stores[p]) \in {<<"key">>, << >>, <<"last">>, <<"key", "last">>}
        BY <2>3, <3>2 DEF PutStep
      <4> QED
        BY <4>1 DEF Written
    <3>5. ~Pending(p)'
      BY <3>2, <3>4 DEF Pending
    <3>6. variant = "packed" => ~Used(pl[1], pl[2])
      <4>1. last[pl[1]] \in Nat
        BY <1>0, <2>1, SizesAssumption DEF TypeOK
      <4>2. variant = "packed" => pl[2] = last[pl[1]] + 1
        BY <2>3, <3>2 DEF Storing
      <4> QED
        BY <4>1, <4>2 DEF Used
    <3> QED
      BY <1>2, <2>3, <3>1, <3>2, <3>3, <3>5, <3>6 DEF Pending
  <2>4. CASE pl = empty[p] /\ Head(stores[p]) = "moveval"
    <3>1. PICK e \in Buckets : LastBucket(p) = e /\ last[e] \in Slots /\ LastPlace(p) = <<e, last[e]>>
      BY <1>2, <2>4, MoveState
    <3>2. LastPlace(p) \in Places /\ variant = "packed"
      BY <1>2, <2>4, MoveState
    <3>3. ValIn(pl)' = val[e][last[e]]
      BY <1>2, <2>4, <3>1, StoreValues DEF ValIn, ValStored
    <3>4. PICK o \in Places : o = LastPlace(p)
      BY <3>2
    <3>5. ValIn(o) = val[e][last[e]]
      BY <3>1, <3>4 DEF ValIn
    <3> QED
      BY <1>2, <2>4, <3>2, <3>3, <3>4, <3>5
  <2> QED
    BY <2>2, <2>3, <2>4
<1> QED
  BY <1>1, <1>2

(* A get takes its value from a place.                                      *)
LEMMA FoundFrom ==
  ASSUME IndInv, NEW p \in Threads, Invoke(p) \/ Work(p), NEW q \in Threads
  PROVE  found'[q] \in {found[q], None} \/ \E pl \in Places : found'[q] = ValIn(pl)
<1>0. TypeOK /\ Phase(p)
  BY DEF IndInv
<1>1. CASE q # p
  BY <1>0, <1>1, OthersKeep
<1>2. CASE q = p /\ LookVal(p)
  <2>1. b[p] \in Buckets /\ j[p] \in Slots /\ found'[p] = val[b[p]][j[p]]
    BY <1>0, <1>2 DEF LookVal, Phase, TypeOK, ValAt
  <2>2. PICK pl \in Places : pl = <<b[p], j[p]>>
    BY <2>1, Bounds
  <2>3. ValIn(pl) = val[b[p]][j[p]]
    BY <2>2 DEF ValIn
  <2> QED
    BY <1>2, <2>1, <2>3
<1>3. CASE Return(p)
  BY <1>0, <1>1, <1>3 DEF Return, TypeOK
<1>4. CASE ~LookVal(p) /\ ~Return(p)
  BY <1>4 DEF Work, Invoke, clht_get, LookAgain, bucket_exists, ReadLast, LookKey,
     Lock, Unlock, clht_put, SearchPut, SearchOn, SearchEnds, Store, clht_remove, SearchRemove,
     Block, Take, Free, locals
<1> QED
  BY <1>1, <1>2, <1>3, <1>4

(* What opens a call.                                                       *)
LEMMA InvokeCall ==
  ASSUME TypeOK, NEW p \in Threads, Invoke(p)
  PROVE  /\ pc[p] = "idle" /\ pc'[p] = Begin /\ UNCHANGED <<table, locals>>
         /\ call'[p] \in Calls /\ call'[p] # Idle /\ \A q \in Threads : q # p => call'[q] = call[q]
         /\ \/ puts' = puts /\ call'[p].op \in {"get", "remove"}
            \/ /\ puts' = puts + 1 /\ puts' <= MaxPuts /\ call'[p].op = "put"
               /\ call'[p].val = puts'
<1>1. PICK c \in Calls : /\ IF c.op = "put" THEN puts < MaxPuts /\ c.val = puts + 1 ELSE c.val = None
                         /\ call' = [call EXCEPT ![p] = c]
                         /\ puts' = IF c.op = "put" THEN puts + 1 ELSE puts
  BY DEF Invoke
<1>2. call'[p] = c /\ \A q \in Threads : q # p => call'[q] = call[q]
  BY <1>1 DEF TypeOK
<1>3. c.op \in {"put", "get", "remove"} /\ c # Idle
  BY DEF Calls, Idle
<1>4. puts \in Nat /\ MaxPuts \in Nat
  BY SizesAssumption DEF TypeOK
<1>5. pc[p] = "idle" /\ pc'[p] = Begin /\ UNCHANGED <<table, locals>>
  BY DEF Invoke, Goto, TypeOK
<1>6. CASE c.op = "put"
  BY <1>1, <1>2, <1>3, <1>4, <1>5, <1>6
<1>7. CASE c.op # "put"
  BY <1>1, <1>2, <1>3, <1>5, <1>7
<1> QED
  BY <1>6, <1>7

(* No value is there before its put stores it.                              *)
LEMMA ValuesStep ==
  ASSUME IndInv, AnswersInv, NEW p \in Threads, Invoke(p) \/ Work(p)
  PROVE  /\ \A pl \in Places : ValIn(pl)' \in 0..puts \cup {Junk}
         /\ \A q \in Threads : found'[q] \in 0..puts \cup {Junk}
         /\ \A x \in (linked' + 1)..MaxBuckets, y \in Slots : val'[x][y] = Junk
<1>0. TypeOK /\ FreshValues /\ \A pl \in Places : ValIn(pl) \in 0..puts \cup {Junk}
  BY DEF IndInv, AnswersInv, FreshValues, ValIn
<1>1. puts \in Nat /\ MaxBuckets \in Nat /\ linked \in Nat
  BY <1>0, Cursor, SizesAssumption DEF TypeOK
<1>2. ASSUME NEW pl \in Places PROVE ValIn(pl)' \in 0..puts \cup {Junk}
  <2>1. CASE ValIn(pl)' = ValIn(pl)
    BY <1>0, <2>1
  <2>2. CASE Pending(p) /\ ValIn(pl)' = call[p].val
    <3>1. call[p].val \in 1..puts
      BY <1>0, <2>2 DEF Pending, FreshValues
    <3> QED
      BY <1>1, <2>2, <3>1
  <2>3. CASE \E o \in Places : ValIn(pl)' = ValIn(o)
    BY <1>0, <2>3
  <2> QED
    BY <2>1, <2>2, <2>3, ValueFrom
<1>3. ASSUME NEW q \in Threads PROVE found'[q] \in 0..puts \cup {Junk}
  <2>1. found[q] \in 0..puts \cup {Junk} /\ None \in 0..puts
    BY <1>0, <1>1 DEF FreshValues, None
  <2> QED
    BY <1>0, <2>1, FoundFrom
<1>4. ASSUME NEW x \in (linked' + 1)..MaxBuckets, NEW y \in Slots PROVE val'[x][y] = Junk
  <2>1. CASE ~Store(p)
    <3>1. val' = val /\ linked' = linked
      BY <2>1, ValueStays DEF Work, Invoke, Return, clht_get, LookVal, LookAgain, bucket_exists,
         ReadLast, LookKey, Lock, Unlock, clht_put, SearchPut, SearchOn, SearchEnds, clht_remove,
         SearchRemove, Block, Take, Free, table
    <3> QED
      BY <1>0, <1>4, <3>1 DEF FreshValues
  <2>2. CASE Store(p)
    <3>1. /\ linked' = IF Head(stores[p]) = "link" THEN linked + 1 ELSE linked
          /\ Storing(p) /\ pc[p] = "store"
      BY <2>2, StoreEffect DEF StoreAt
    <3>2. x \in (linked + 1)..MaxBuckets /\ x \in Buckets /\ x # linked
      BY <1>1, <1>4, <3>1 DEF Buckets
    <3>3. val[x][y] = Junk
      BY <1>0, <3>2 DEF FreshValues
    <3>4. Head(stores[p]) = "link" => val' = val
      BY <2>2, StoreValues
    <3>5. Head(stores[p]) # "link" => <<x, y>> # empty[p]
      <4>1. Head(stores[p]) # "link" => empty[p][1] <= linked
        BY <3>1 DEF Storing
      <4> QED
        BY <1>1, <3>2, <4>1
    <3>6. Head(stores[p]) # "link" => val'[x][y] = val[x][y]
      BY <2>2, <3>2, <3>5, StoreValues
    <3> QED
      BY <3>3, <3>4, <3>6
  <2> QED
    BY <2>1, <2>2
<1> QED
  BY <1>2, <1>3, <1>4

(* The value of a put is new.                                               *)
LEMMA FreshStep ==
  ASSUME IndInv, IndInv', AnswersInv, Next
  PROVE  FreshValues'
<1>0. TypeOK /\ FreshValues /\ puts \in Nat /\ MaxPuts \in Nat /\ puts <= MaxPuts
  BY SizesAssumption DEF IndInv, AnswersInv, TypeOK
<1>1. PICK p \in Threads : Invoke(p) \/ Work(p)
  BY DEF Next
<1>2. variant' = variant /\ Outcome(p)
  BY DEF Next, AnswersInv
<1>3. /\ \A pl \in Places : ValIn(pl)' \in 0..puts \cup {Junk}
      /\ \A q \in Threads : found'[q] \in 0..puts \cup {Junk}
      /\ \A x \in (linked' + 1)..MaxBuckets, y \in Slots : val'[x][y] = Junk
  BY <1>1, ValuesStep
<1>4. \A pl \in Places : ValIn(pl) \in 0..puts \cup {Junk}
  BY <1>0 DEF FreshValues, ValIn
<1>5. CASE Invoke(p)
  <2>1. /\ \A q \in Threads : q # p => call'[q] = call[q] /\ pc'[q] = pc[q] /\ stores'[q] = stores[q]
        /\ \/ puts' = puts /\ call'[p].op \in {"get", "remove"}
           \/ /\ puts' = puts + 1 /\ puts' <= MaxPuts /\ call'[p].op = "put"
              /\ call'[p].val = puts'
    BY <1>0, <1>5, InvokeCall, OthersStay
  <2>2. UNCHANGED <<val, found>>
    BY <1>5 DEF Invoke, table, locals
  <2>3. puts' \in Nat /\ puts <= puts' /\ 0..puts \subseteq 0..puts' /\ 1..puts \subseteq 1..puts'
    BY <1>0, <2>1
  <2>4. ASSUME NEW q \in Threads, call'[q].op = "put" PROVE call'[q].val \in 1..puts'
    <3>1. CASE q # p
      BY <1>0, <2>1, <2>3, <2>4, <3>1 DEF FreshValues
    <3>2. CASE q = p
      BY <1>0, <2>1, <2>4, <3>2
    <3> QED
      BY <3>1, <3>2
  <2>5. ASSUME NEW q \in Threads, Pending(q)'
        PROVE  /\ \A pl \in Places : ValIn(pl)' # call'[q].val
               /\ \A r \in Threads : /\ found'[r] # call'[q].val
                                     /\ r # q /\ call'[r].op = "put" => call'[r].val # call'[q].val
    <3>1. CASE q = p
      <4>1. call'[p].val = puts + 1 /\ puts + 1 \notin 0..puts \cup {Junk}
        BY <1>0, <2>1, <2>5, <3>1 DEF Pending, Junk
      <4>2. \A r \in Threads : r # p /\ call'[r].op = "put" => call'[r].val \in 1..puts
        BY <1>0, <2>1 DEF FreshValues
      <4> QED
        BY <1>0, <1>3, <3>1, <4>1, <4>2
    <3>2. CASE q # p
      <4>1. Pending(q) /\ call'[q] = call[q] /\ call[q].op = "put" /\ call[q].val \in 1..puts
        BY <1>0, <2>1, <2>5, <3>2 DEF Pending, FreshValues
      <4>2. call'[p].op = "put" => call'[p].val # call[q].val
        BY <1>0, <2>1, <4>1
      <4>3. \A pl \in Places : ValIn(pl)' = ValIn(pl) /\ ValIn(pl) # call[q].val
        BY <1>0, <2>2, <4>1 DEF FreshValues, ValIn
      <4> QED
        BY <1>0, <2>1, <2>2, <4>1, <4>2, <4>3 DEF FreshValues
    <3> QED
      BY <3>1, <3>2
  <2> QED
    BY <1>3, <2>3, <2>4, <2>5 DEF FreshValues, ValIn
<1>6. CASE Work(p)
  <2>1. puts' = puts /\ (call' = call \/ call' = [call EXCEPT ![p] = Idle])
    BY <1>6, CallStays
  <2>2. ASSUME NEW q \in Threads, call'[q].op = "put"
        PROVE  call'[q] = call[q] /\ call[q].val \in 1..puts
    <3>1. Idle.op # "put"
      BY DEF Idle
    <3>2. call'[q] = call[q]
      BY <1>0, <2>1, <2>2, <3>1 DEF TypeOK
    <3> QED
      BY <1>0, <2>2, <3>2 DEF FreshValues
  <2>3. ASSUME NEW q \in Threads, Pending(q)'
        PROVE  /\ \A pl \in Places : ValIn(pl)' # call'[q].val
               /\ \A r \in Threads : /\ found'[r] # call'[q].val
                                     /\ r # q /\ call'[r].op = "put" => call'[r].val # call'[q].val
    <3>1. Pending(q) /\ call'[q] = call[q] /\ call[q].op = "put" /\ call[q].val \in 1..puts
      BY <1>0, <1>2, <1>6, <2>3, PendingStays DEF Pending, FreshValues
    <3>2. \A pl \in Places : ValIn(pl) # call[q].val
      BY <1>0, <3>1 DEF FreshValues, ValIn
    <3>3. \A r \in Threads : /\ found[r] # call[q].val
                             /\ r # q /\ call[r].op = "put" => call[r].val # call[q].val
      BY <1>0, <3>1 DEF FreshValues
    <3>4. ASSUME NEW pl \in Places PROVE ValIn(pl)' # call[q].val
      <4>1. CASE ValIn(pl)' = ValIn(pl)
        BY <3>2, <4>1
      <4>2. CASE Pending(p) /\ ~Pending(p)' /\ ValIn(pl)' = call[p].val
        <5>1. q # p /\ call[p].op = "put"
          BY <2>3, <4>2 DEF Pending
        <5> QED
          BY <3>3, <4>2, <5>1
      <4>3. CASE \E o \in Places : ValIn(pl)' = ValIn(o)
        BY <3>2, <4>3
      <4> QED
        BY <1>6, <4>1, <4>2, <4>3, ValueFrom
    <3>5. ASSUME NEW r \in Threads PROVE found'[r] # call[q].val
      <4>1. call[q].val # None
        BY <1>0, <3>1 DEF None
      <4> QED
        BY <1>6, <3>2, <3>3, <4>1, FoundFrom
    <3>6. ASSUME NEW r \in Threads, r # q, call'[r].op = "put" PROVE call'[r].val # call[q].val
      BY <2>2, <3>3, <3>6
    <3> QED
      BY <3>1, <3>4, <3>5, <3>6
  <2> QED
    BY <1>3, <2>1, <2>2, <2>3 DEF FreshValues, ValIn
<1> QED
  BY <1>1, <1>5, <1>6

-----------------------------------------------------------------------------
(* The contents.  A put binds its key with the store of the key, in a       *)
(* packed chain with that of last.                                          *)
Binds(p) == Store(p) /\ Head(stores[p]) = (IF variant = "packed" THEN "last" ELSE "key")
Held(k, S) == Holding(k)' = S

(* Where a key is after a store, place by place.                            *)
LEMMA HeldAfter ==
  ASSUME IndInv, NEW p \in Threads, Store(p), variant' = variant, NEW k \in Keys, NEW S,
         S \subseteq Places,
         \A pl \in Places : pl \in S <=>
           /\ pl[1] <= linked' /\ (variant = "packed" => pl[2] <= last'[pl[1]])
           /\ (IF pl = empty[p] THEN KeyStored(p, Head(stores[p])) ELSE KeyIn(pl)) = k
  PROVE  Held(k, S)
<1>1. \A pl \in Places : KeyIn(pl)' = IF pl = empty[p] THEN KeyStored(p, Head(stores[p])) ELSE KeyIn(pl)
  <2>1. ASSUME NEW pl \in Places
        PROVE  key'[pl[1]][pl[2]] = IF pl = empty[p] THEN KeyStored(p, Head(stores[p])) ELSE KeyIn(pl)
    <3>1. pl = <<pl[1], pl[2]>> /\ pl[1] \in Buckets /\ pl[2] \in Slots
      BY Bounds
    <3>2. CASE pl = empty[p]
      BY <3>2, StorePlaces
    <3>3. CASE pl # empty[p]
      <4>1. key'[pl[1]][pl[2]] = key[pl[1]][pl[2]]
        BY <3>1, <3>3, StorePlaces
      <4> QED
        BY <3>3, <4>1 DEF KeyIn
    <3> QED
      BY <3>2, <3>3
  <2> QED
    BY <2>1 DEF KeyIn
<1>2. Holding(k)' = {pl \in Places : Used(pl[1], pl[2])' /\ KeyIn(pl)' = k}
  BY DEF Holding, KeyIn
<1>3. \A pl \in Places : pl \in Holding(k)' <=> pl \in S
  BY <1>1, <1>2 DEF Used
<1>4. Holding(k)' \subseteq Places
  BY <1>2
<1> QED
  BY <1>3, <1>4 DEF Held

(* The stores of puts.                                                      *)
LEMMA PutHolds ==
  ASSUME IndInv, NEW p \in Threads, Store(p), variant' = variant, Writes(p), NEW k \in Keys,
         call[p].op = "put"
  PROVE  IF Binds(p) /\ k = call[p].key THEN Holding(k) = {} /\ Held(k, {empty[p]})
                                        ELSE Held(k, Holding(k))
<1> DEFINE x == empty[p][1]
           y == empty[p][2]
           s == Head(stores[p])
<1>1. /\ TypeOK /\ Fresh /\ Storing(p) /\ pc[p] = "store" /\ empty[p] \in Places
      /\ empty[p] = <<x, y>> /\ x \in Buckets /\ y \in Slots /\ PutStep(stores[p])
      /\ s \in {"link", "val", "last"} => key' = key
      /\ linked' = IF s = "link" THEN linked + 1 ELSE linked
      /\ s # "last" => last' = last
      /\ s = "last" => variant = "packed" /\ last' = [last EXCEPT ![x] = @ + 1]
  <2>1. s # "unlast"
    BY StoreOfPut
  <2> QED
    BY <2>1, StoreEffect, StorePlaces, StoreOfPut, PutSteps DEF IndInv, StoresLeft, StoreAt
<1>2. /\ linked \in Nat /\ linked <= MaxBuckets /\ MaxBuckets \in Nat
      /\ \A z \in Buckets : last[z] \in Nat
      /\ \A pl \in Places : pl[1] \in Buckets /\ pl[1] \in Nat /\ pl[2] \in Slots /\ pl[2] \in Nat
  BY <1>1, Cursor, Bounds
<1>3. k # None /\ \A pl \in Holding(k) : pl \in Places
  BY KeysAssumption DEF None, Holding
<1>4. s \in {"link", "val", "last"} => KeyStored(p, s) = KeyIn(empty[p])
  BY DEF KeyStored, KeyIn
<1>5. CASE s = "link"
  <2>1. ASSUME NEW pl \in Places
        PROVE  pl \in Holding(k) <=>
                 /\ pl[1] <= linked' /\ (variant = "packed" => pl[2] <= last'[pl[1]])
                 /\ KeyIn(pl) = k
    <3>1. CASE pl[1] = linked + 1
      <4>1. pl[1] \in (linked + 1)..MaxBuckets
        BY <1>2, <3>1 DEF Buckets
      <4>2. KeyIn(pl) = None
        BY <1>1, <1>2, <4>1 DEF Fresh, KeyIn
      <4>3. pl \notin Holding(k)
        BY <1>3, <4>2 DEF Holding, KeyIn
      <4> QED
        BY <1>3, <4>2, <4>3
    <3>2. CASE pl[1] # linked + 1
      <4>1. pl[1] <= linked' <=> pl[1] <= linked
        BY <1>1, <1>2, <1>5, <3>2
      <4> QED
        BY <1>1, <1>5, <4>1 DEF Holding, Used, KeyIn
    <3> QED
      BY <3>1, <3>2
  <2>2. Held(k, Holding(k))
    BY <1>3, <1>4, <1>5, <2>1, HeldAfter
  <2> QED
    BY <1>5, <2>2 DEF Binds
<1>6. CASE s = "val"
  <2>1. Held(k, Holding(k))
    BY <1>1, <1>6, HoldingSame DEF Held
  <2> QED
    BY <1>6, <2>1 DEF Binds
<1>7. CASE s = "key" /\ variant = "packed"
  <2>1. y = last[x] + 1
    BY <1>1, <1>7 DEF Storing
  <2>2. ASSUME NEW pl \in Places
        PROVE  pl \in Holding(k) <=>
                 /\ pl[1] <= linked' /\ (variant = "packed" => pl[2] <= last'[pl[1]])
                 /\ (IF pl = empty[p] THEN KeyStored(p, s) ELSE KeyIn(pl)) = k
    <3>1. CASE pl = empty[p]
      <4>1. ~(pl[2] <= last[pl[1]])
        BY <1>1, <1>2, <2>1, <3>1
      <4> QED
        BY <1>1, <1>7, <4>1 DEF Holding, Used
    <3>2. CASE pl # empty[p]
      BY <1>1, <1>7, <3>2 DEF Holding, Used, KeyIn
    <3> QED
      BY <3>1, <3>2
  <2>3. Held(k, Holding(k))
    BY <1>3, <2>2, HeldAfter
  <2> QED
    BY <1>7, <2>3 DEF Binds
<1>8. CASE s = "key" /\ variant # "packed"
  <2>1. KeyIn(empty[p]) = None /\ x <= linked
    <3>1. stores[p] # <<"val">>
      BY <1>8
    <3> QED
      BY <1>1, <1>8, <3>1 DEF Writes, KeyTo, KeyIn, Storing
  <2>2. KeyStored(p, s) = call[p].key
    BY <1>8 DEF KeyStored
  <2>3. linked' = linked /\ empty[p] \notin Holding(k)
    BY <1>1, <1>3, <1>8, <2>1 DEF Holding, KeyIn
  <2>4. CASE k = call[p].key
    <3>1. Holding(k) = {}
      <4>1. stores[p] # <<"val">>
        BY <1>8
      <4> QED
        BY <1>1, <1>8, <2>4, <4>1 DEF Storing
    <3>2. \A pl \in Places : pl \in {empty[p]} <=>
            /\ pl[1] <= linked' /\ (variant = "packed" => pl[2] <= last'[pl[1]])
            /\ (IF pl = empty[p] THEN KeyStored(p, s) ELSE KeyIn(pl)) = k
      BY <1>8, <2>1, <2>2, <2>3, <2>4, <3>1 DEF Holding, Used, KeyIn
    <3>3. Held(k, {empty[p]})
      BY <1>1, <3>2, HeldAfter
    <3> QED
      BY <1>8, <2>4, <3>1, <3>3 DEF Binds
  <2>5. CASE k # call[p].key
    <3>1. \A pl \in Places : pl \in Holding(k) <=>
            /\ pl[1] <= linked' /\ (variant = "packed" => pl[2] <= last'[pl[1]])
            /\ (IF pl = empty[p] THEN KeyStored(p, s) ELSE KeyIn(pl)) = k
      BY <1>8, <2>2, <2>3, <2>5 DEF Holding, Used, KeyIn
    <3>2. Held(k, Holding(k))
      BY <1>3, <3>1, HeldAfter
    <3> QED
      BY <2>5, <3>2
  <2> QED
    BY <2>4, <2>5
<1>9. CASE s = "last"
  <2>1. /\ variant = "packed" /\ y = last[x] + 1 /\ KeyIn(empty[p]) = call[p].key /\ x <= linked
        /\ Holding(call[p].key) = {}
    <3>1. variant = "packed" /\ stores[p] = <<"last">>
      BY <1>1, <1>9 DEF PutStep
    <3>2. stores[p] # <<"val">>
      BY <1>9
    <3> QED
      BY <1>1, <1>9, <3>1, <3>2 DEF Storing, KeyIn
  <2>2. linked' = linked /\ last'[x] = last[x] + 1 /\ \A z \in Buckets : z # x => last'[z] = last[z]
    BY <1>1, <1>9 DEF TypeOK
  <2>3. \A pl \in Places : pl # empty[p] =>
          (pl[2] <= last'[pl[1]] <=> pl[2] <= last[pl[1]])
    <3>1. ASSUME NEW pl \in Places, pl # empty[p]
          PROVE  pl[2] <= last'[pl[1]] <=> pl[2] <= last[pl[1]]
      <4>1. pl[1] # x \/ pl[2] # y
        BY <1>1, <3>1, Bounds
      <4> QED
        BY <1>1, <1>2, <2>1, <2>2, <4>1
    <3> QED
      BY <3>1
  <2>4. y <= last'[x] /\ empty[p] \notin Holding(k)
    BY <1>1, <1>2, <2>1, <2>2, KeysAssumption DEF Holding, Used
  <2>5. CASE k = call[p].key
    <3>1. \A pl \in Places : pl \in {empty[p]} <=>
            /\ pl[1] <= linked' /\ (variant = "packed" => pl[2] <= last'[pl[1]])
            /\ (IF pl = empty[p] THEN KeyStored(p, s) ELSE KeyIn(pl)) = k
      BY <1>4, <1>9, <2>1, <2>2, <2>3, <2>4, <2>5 DEF Holding, Used, KeyIn
    <3>2. Held(k, {empty[p]})
      BY <1>1, <3>1, HeldAfter
    <3> QED
      BY <1>9, <2>1, <2>5, <3>2 DEF Binds
  <2>6. CASE k # call[p].key
    <3>1. \A pl \in Places : pl \in Holding(k) <=>
            /\ pl[1] <= linked' /\ (variant = "packed" => pl[2] <= last'[pl[1]])
            /\ (IF pl = empty[p] THEN KeyStored(p, s) ELSE KeyIn(pl)) = k
      BY <1>4, <1>9, <2>1, <2>2, <2>3, <2>4, <2>6 DEF Holding, Used, KeyIn
    <3>2. Held(k, Holding(k))
      BY <1>3, <3>1, HeldAfter
    <3> QED
      BY <2>6, <3>2
  <2> QED
    BY <2>5, <2>6
<1> QED
  BY <1>5, <1>6, <1>7, <1>8, <1>9, StoreOfPut

(* The stores of a remove: it clears its place; a packed one copies the     *)
(* last entry there and drops the original.                                 *)
LEMMA ClearHolds ==
  ASSUME IndInv, NEW p \in Threads, Store(p), variant' = variant, Writes(p), NEW k \in Keys,
         Head(stores[p]) = "clear"
  PROVE  IF k = call[p].key THEN Holding(k) = {empty[p]} /\ Held(k, {})
                            ELSE Held(k, Holding(k))
<1>1. /\ TypeOK /\ Storing(p) /\ pc[p] = "store" /\ empty[p] \in Places /\ First(stores[p])
      /\ call[p].op = "remove" /\ linked' = linked /\ last' = last
  <2>1. call[p].op \in {"put", "remove"} /\ call[p].op # "put"
    BY StoreEffect, StoreOfPut
  <2> QED
    BY <2>1, StoreEffect, StorePlaces DEF IndInv
<1>2. k # None /\ \A pl \in Holding(k) : pl \in Places
  BY KeysAssumption DEF None, Holding
<1>3. KeyIn(empty[p]) = call[p].key /\ KeyStored(p, "clear") = None
  BY <1>1 DEF Writes, KeyTo, KeyIn, KeyStored
<1>4. Used(empty[p][1], empty[p][2])
  <2>1. empty[p][1] <= linked
    BY <1>1 DEF Storing
  <2>2. variant = "packed" => empty[p][2] <= last[empty[p][1]]
    BY <1>1 DEF Storing
  <2> QED
    BY <2>1, <2>2 DEF Used
<1>5. \A pl, other \in Holding(k) : pl = other
  <2>1. stores[p] \notin Moves
    <3>1. /\ Head(<<"moveval", "movekey", "unlast">>) = "moveval"
          /\ Head(<<"movekey", "unlast">>) = "movekey" /\ Head(<<"unlast">>) = "unlast"
      OBVIOUS
    <3> QED
      BY <3>1 DEF Moves
  <2> QED
    BY <2>1, Whole
<1>6. CASE k = call[p].key
  <2>1. Holding(k) = {empty[p]}
    <3>1. empty[p] \in Holding(k)
      BY <1>1, <1>3, <1>4, <1>6 DEF Holding, KeyIn
    <3> QED
      BY <1>5, <3>1
  <2>2. \A pl \in Places : pl \in {} <=>
          /\ pl[1] <= linked' /\ (variant = "packed" => pl[2] <= last'[pl[1]])
          /\ (IF pl = empty[p] THEN KeyStored(p, Head(stores[p])) ELSE KeyIn(pl)) = k
    <3>1. ASSUME NEW pl \in Places, pl # empty[p], Used(pl[1], pl[2]), KeyIn(pl) = k PROVE FALSE
      <4>1. pl \in Holding(k)
        BY <3>1 DEF Holding, KeyIn
      <4> QED
        BY <2>1, <3>1, <4>1
    <3> QED
      BY <1>1, <1>2, <1>3, <3>1 DEF Used
  <2>3. Held(k, {})
    BY <2>2, HeldAfter
  <2> QED
    BY <1>6, <2>1, <2>3
<1>7. CASE k # call[p].key
  <2>1. \A pl \in Places : pl \in Holding(k) <=>
          /\ pl[1] <= linked' /\ (variant = "packed" => pl[2] <= last'[pl[1]])
          /\ (IF pl = empty[p] THEN KeyStored(p, Head(stores[p])) ELSE KeyIn(pl)) = k
    BY <1>1, <1>2, <1>3, <1>7 DEF Holding, Used, KeyIn
  <2>2. Held(k, Holding(k))
    BY <1>2, <2>1, HeldAfter
  <2> QED
    BY <1>7, <2>2
<1> QED
  BY <1>6, <1>7

(* Then a packed one moves the last entry there.                            *)
LEMMA MoveHolds ==
  ASSUME IndInv, NEW p \in Threads, Store(p), variant' = variant, Writes(p), NEW k \in Keys,
         Head(stores[p]) \in {"moveval", "movekey", "unlast"}
  PROVE  \/ Held(k, Holding(k))
         \/ /\ Head(stores[p]) = "movekey" /\ Held(k, Holding(k) \cup {empty[p]})
            /\ LastPlace(p) \in Holding(k)
         \/ /\ Head(stores[p]) = "unlast" /\ Held(k, Holding(k) \ {LastPlace(p)})
            /\ empty[p] \in Holding(k) /\ empty[p] # LastPlace(p)
<1> DEFINE s == Head(stores[p])
<1>1. /\ TypeOK /\ pc[p] = "store" /\ call[p].op = "remove" /\ variant = "packed"
      /\ empty[p] \in Places /\ linked \in Nat
  BY MoveState
<1>2. PICK e \in 1..linked :
        /\ LastBucket(p) = e /\ e \in Buckets /\ last[e] \in Slots /\ b[p] \in 1..e
        /\ empty[p] = <<b[p], j[p]>> /\ j[p] \in 1..last[b[p]]
        /\ LastPlace(p) = <<e, last[e]>> /\ LastPlace(p) \in Places
  BY MoveState
<1>3. /\ s \in {"moveval", "movekey"} => KeyIn(empty[p]) = None
      /\ s = "unlast" => /\ KeyIn(empty[p]) = KeyIn(LastPlace(p))
                         /\ empty[p] = LastPlace(p) => KeyIn(empty[p]) = None
  BY <1>1 DEF Writes, KeyTo, KeyIn
<1>4. k # None /\ \A pl \in Holding(k) : pl \in Places /\ KeyIn(pl) = k
  BY KeysAssumption DEF None, Holding, KeyIn
<1>5. linked' = linked /\ (s # "unlast" => last' = last)
  BY <1>1, StorePlaces
<1>6. Used(empty[p][1], empty[p][2]) /\ Used(LastPlace(p)[1], LastPlace(p)[2])
  <2>1. /\ empty[p][1] = b[p] /\ empty[p][2] = j[p] /\ LastPlace(p)[1] = e
        /\ LastPlace(p)[2] = last[e]
    BY <1>2
  <2>2. b[p] <= linked /\ j[p] <= last[b[p]] /\ e <= linked /\ last[e] <= last[e]
    <3>1. b[p] \in Nat /\ last[b[p]] \in Nat /\ last[e] \in Nat /\ e \in Nat
      BY <1>1, <1>2, Cursor
    <3> QED
      BY <1>1, <1>2, <3>1
  <2> QED
    BY <2>1, <2>2 DEF Used
<1>7. CASE s = "moveval"
  <2>1. UNCHANGED <<key, last, linked>>
    BY <1>5, <1>7, StorePlaces
  <2> QED
    BY <2>1, HoldingSame DEF Held
<1>8. CASE s = "movekey"
  <2>1. KeyStored(p, s) = KeyIn(LastPlace(p))
    BY <1>2, <1>8 DEF KeyStored, KeyIn
  <2>2. empty[p] \notin Holding(k)
    BY <1>3, <1>4, <1>8
  <2>3. CASE KeyIn(LastPlace(p)) = k
    <3>1. LastPlace(p) \in Holding(k)
      BY <1>2, <1>6, <2>3 DEF Holding, KeyIn
    <3>2. \A pl \in Places : pl \in Holding(k) \cup {empty[p]} <=>
            /\ pl[1] <= linked' /\ (variant = "packed" => pl[2] <= last'[pl[1]])
            /\ (IF pl = empty[p] THEN KeyStored(p, s) ELSE KeyIn(pl)) = k
      BY <1>5, <1>6, <1>8, <2>1, <2>3 DEF Holding, Used, KeyIn
    <3>3. Held(k, Holding(k) \cup {empty[p]})
      BY <1>1, <1>4, <3>2, HeldAfter
    <3> QED
      BY <1>8, <3>1, <3>3
  <2>4. CASE KeyIn(LastPlace(p)) # k
    <3>1. \A pl \in Places : pl \in Holding(k) <=>
            /\ pl[1] <= linked' /\ (variant = "packed" => pl[2] <= last'[pl[1]])
            /\ (IF pl = empty[p] THEN KeyStored(p, s) ELSE KeyIn(pl)) = k
      BY <1>5, <1>8, <2>1, <2>2, <2>4 DEF Holding, Used, KeyIn
    <3> QED
      BY <1>4, <3>1, HeldAfter
  <2> QED
    BY <2>3, <2>4
<1>9. CASE s = "unlast"
  <2>1. KeyStored(p, s) = KeyIn(empty[p])
    BY <1>9 DEF KeyStored, KeyIn
  <2>2. last'[e] = last[e] - 1 /\ \A z \in Buckets : z # e => last'[z] = last[z]
    <3>1. last' = [last EXCEPT ![e] = @ - 1]
      BY <1>2, <1>9, StoreEffect DEF StoreAt
    <3>2. last \in [Buckets -> 0..ENTRIES_PER_BUCKET] /\ e \in Buckets
      BY <1>1, <1>2 DEF TypeOK
    <3> QED
      BY <3>1, <3>2
  <2>3. ASSUME NEW pl \in Places
        PROVE  Used(pl[1], pl[2]) /\ pl # LastPlace(p) <=>
                 pl[1] <= linked' /\ (variant = "packed" => pl[2] <= last'[pl[1]])
    <3>1. pl[1] \in Buckets /\ pl[2] \in Nat /\ last[e] \in Nat /\ pl = <<pl[1], pl[2]>>
      BY <1>1, <1>2, Cursor, Bounds
    <3>2. CASE pl[1] = e
      <4>1. pl # LastPlace(p) <=> pl[2] # last[e]
        BY <1>2, <3>1, <3>2
      <4> QED
        BY <1>1, <1>5, <2>2, <3>1, <3>2, <4>1 DEF Used
    <3>3. CASE pl[1] # e
      <4>1. pl # LastPlace(p)
        BY <1>2, <3>3
      <4> QED
        BY <1>5, <2>2, <3>1, <3>3, <4>1 DEF Used
    <3> QED
      BY <3>2, <3>3
  <2>4. \A pl \in Places : pl \in Holding(k) \ {LastPlace(p)} <=>
          /\ pl[1] <= linked' /\ (variant = "packed" => pl[2] <= last'[pl[1]])
          /\ (IF pl = empty[p] THEN KeyStored(p, s) ELSE KeyIn(pl)) = k
    BY <2>1, <2>3 DEF Holding, KeyIn
  <2>5. Held(k, Holding(k) \ {LastPlace(p)})
    BY <1>4, <2>4, HeldAfter
  <2>6. CASE LastPlace(p) \in Holding(k)
    <3>1. KeyIn(empty[p]) = k /\ empty[p] # LastPlace(p)
      BY <1>3, <1>4, <1>9, <2>6
    <3>2. empty[p] \in Holding(k)
      BY <1>1, <1>6, <3>1 DEF Holding, KeyIn
    <3> QED
      BY <1>9, <2>5, <3>1, <3>2
  <2>7. CASE LastPlace(p) \notin Holding(k)
    <3>1. Holding(k) \ {LastPlace(p)} = Holding(k)
      BY <2>7
    <3> QED
      BY <2>5, <3>1
  <2> QED
    BY <2>6, <2>7
<1> QED
  BY <1>7, <1>8, <1>9

(* Outside the stores a key goes with its block only.                       *)
Unbinds(p) == (Store(p) /\ Head(stores[p]) = "clear") \/ (Block(p) /\ KeyAt(p) = call[p].key)

(* All other steps leave every key where it is.                             *)
LEMMA QuietHolds ==
  ASSUME IndInv, NEW p \in Threads, Invoke(p) \/ Work(p), variant' = variant, ~Store(p), Blocks(p),
         AllWrites, Looking(p), NEW k \in Keys
  PROVE  IF Unbinds(p) /\ k = call[p].key THEN Holding(k) = {<<b[p], j[p]>>} /\ Held(k, {})
                                          ELSE Held(k, Holding(k))
<1>1. TypeOK /\ Phase(p) /\ Shrinks /\ b[p] <= linked
  BY ShrinkStep DEF IndInv, Looking
<1>2. k # None /\ k # KEY_BLCK /\ \A pl \in Holding(k) : pl \in Places /\ KeyIn(pl) = k
  BY KeysAssumption DEF None, KEY_BLCK, Holding, KeyIn
<1>3. \A pl \in Places : pl # <<b[p], j[p]>> => KeyIn(pl)' = KeyIn(pl)
  BY KeyStays
<1>4. Holding(k)' = {pl \in Places : Used(pl[1], pl[2])' /\ KeyIn(pl)' = k}
  BY DEF Holding, KeyIn
<1>5. \A pl \in Places : Used(pl[1], pl[2])' <=> Used(pl[1], pl[2])
  BY <1>1 DEF Shrinks, Used
<1>6. CASE key' = key
  <2>1. Held(k, Holding(k))
    BY <1>1, <1>6, HoldingSame DEF Held, Shrinks
  <2>2. ~Unbinds(p)
    <3>1. ASSUME Block(p), KeyAt(p) = call[p].key PROVE FALSE
      <4>1. /\ b[p] \in Buckets /\ j[p] \in Slots /\ call[p] \in Calls
            /\ key' = [key EXCEPT ![b[p]][j[p]] = KEY_BLCK]
        BY <1>1, <3>1 DEF Block, Phase, TypeOK
      <4>2. key'[b[p]][j[p]] = KEY_BLCK /\ KeyAt(p) # KEY_BLCK
        BY <1>1, <3>1, <4>1, CallTypes DEF TypeOK, KEY_BLCK
      <4> QED
        BY <1>6, <4>2 DEF KeyAt
    <3> QED
      BY <3>1 DEF Unbinds
  <2> QED
    BY <2>1, <2>2
<1>7. ASSUME Block(p) \/ Free(p)
      PROVE  /\ variant = "lock_ins" /\ b[p] \in Buckets /\ j[p] \in Slots /\ call[p] \in Calls
             /\ <<b[p], j[p]>> \in Places /\ Used(b[p], j[p])
  BY <1>1, <1>7, Bounds DEF Block, Free, Phase, TypeOK, Used
<1>8. CASE Block(p) /\ KeyAt(p) = call[p].key
  <2>1. key'[b[p]][j[p]] = KEY_BLCK
    <3>1. key' = [key EXCEPT ![b[p]][j[p]] = KEY_BLCK]
      BY <1>8 DEF Block
    <3> QED
      BY <1>1, <1>7, <1>8, <3>1 DEF TypeOK
  <2>2. ASSUME NEW pl \in Holding(k)' PROVE pl \in Holding(k) /\ pl # <<b[p], j[p]>>
    <3>1. KeyIn(pl)' = k /\ pl \in Places
      BY <1>4
    <3>2. pl # <<b[p], j[p]>>
      BY <1>2, <2>1, <3>1 DEF KeyIn
    <3> QED
      BY <1>1, <3>2 DEF Shrinks
  <2>3. ASSUME NEW pl \in Holding(k), pl # <<b[p], j[p]>> PROVE pl \in Holding(k)'
    BY <1>2, <1>3, <1>4, <1>5, <2>3 DEF Holding
  <2>4. CASE k = call[p].key
    <3>1. <<b[p], j[p]>> \in Holding(k)
      BY <1>7, <1>8, <2>4 DEF Holding, KeyAt
    <3>2. \A pl, other \in Holding(k) : pl = other
      <4>1. \A q \in Threads : stores[q] # <<"unlast">>
        <5>1. ASSUME NEW q \in Threads, stores[q] = <<"unlast">> PROVE FALSE
          <6>1. <<"unlast">> \notin KeyAhead \cup {<<"val">>} /\ <<"unlast">> # <<"clear">>
                /\ <<"unlast">> # << >>
            BY DEF KeyAhead
          <6>2. variant # "packed" /\ Phase(q)
            BY <1>7, <1>8 DEF IndInv
          <6> QED
            BY <5>1, <6>1, <6>2 DEF Phase, StoresLeft
        <5> QED
          BY <5>1
      <4> QED
        BY <4>1 DEF IndInv, OneCopy
    <3> QED
      BY <1>8, <2>2, <2>4, <3>1, <3>2 DEF Held, Unbinds
  <2>5. CASE k # call[p].key
    <3>1. <<b[p], j[p]>> \notin Holding(k)
      BY <1>2, <1>8, <2>5 DEF KeyIn, KeyAt
    <3> QED
      BY <2>2, <2>3, <2>5, <3>1 DEF Held
  <2> QED
    BY <2>4, <2>5
<1>9. CASE Free(p)
  <2>1. KeyAt(p) = KEY_BLCK /\ pc[p] = "free"
    BY <1>9 DEF Blocks, Free
  <2>2. <<b[p], j[p]>> \notin Holding(k)
    BY <1>2, <2>1 DEF KeyIn, KeyAt
  <2>3. ASSUME NEW pl \in Holding(k) PROVE pl \in Holding(k)'
    BY <1>2, <1>3, <1>4, <1>5, <2>2, <2>3 DEF Holding
  <2>4. Held(k, Holding(k))
    BY <1>1, <2>3 DEF Held, Shrinks
  <2>5. ~Unbinds(p)
    BY <1>9 DEF Unbinds, Block, Free
  <2> QED
    BY <2>4, <2>5
<1> QED
  BY <1>6, <1>8, <1>9, KeyStays

(* What a step does to the places of a key.                                 *)
Shifts(p, k) ==
  /\ ~(Binds(p) /\ k = call[p].key) /\ ~(Unbinds(p) /\ k = call[p].key)
  /\ \/ Held(k, Holding(k))
     \/ /\ variant = "packed" /\ Store(p) /\ Head(stores[p]) \in {"movekey", "unlast"}
        /\ \E pl \in Holding(k) : pl \in Holding(k)'

(* A step binds a key, unbinds it, or shifts it.                            *)
LEMMA KeyMoves ==
  ASSUME IndInv, NEW p \in Threads, Invoke(p) \/ Work(p), variant' = variant, Blocks(p),
         AllWrites, Looking(p), NEW k \in Keys
  PROVE  \/ Binds(p) /\ k = call[p].key /\ Holding(k) = {} /\ Held(k, {empty[p]})
         \/ /\ Unbinds(p) /\ k = call[p].key /\ Held(k, {})
            /\ Holding(k) = {IF Store(p) THEN empty[p] ELSE <<b[p], j[p]>>}
         \/ Shifts(p, k)
<1>1. Writes(p)
  BY DEF AllWrites
<1>2. CASE ~Store(p)
  BY <1>2, QuietHolds DEF Shifts, Binds
<1>3. CASE Store(p) /\ call[p].op = "put"
  <2>1. Head(stores[p]) \in {"link", "key", "val", "last"} /\ ~Unbinds(p)
    <3>1. Head(stores[p]) \in {"link", "key", "val", "last"}
      BY <1>3, StoreOfPut
    <3>2. ~Block(p)
      BY <1>3 DEF Store, Block
    <3> QED
      BY <3>1, <3>2 DEF Unbinds
  <2> QED
    BY <1>1, <1>3, <2>1, PutHolds DEF Shifts
<1>4. CASE Store(p) /\ call[p].op # "put"
  <2>1. Head(stores[p]) \in {"clear", "moveval", "movekey", "unlast"} /\ ~Block(p)
        /\ (Head(stores[p]) # "clear" => variant = "packed")
    <3>1. ~Block(p)
      BY <1>4 DEF Store, Block
    <3>2. Head(stores[p]) \notin {"link", "key", "val", "last"} /\ First(stores[p])
      BY <1>4, StoreOfPut, StoreEffect
    <3>3. Head(stores[p]) \in {"clear", "moveval", "movekey", "unlast"}
      BY <3>2 DEF First
    <3> QED
      BY <1>4, <3>1, <3>3, StoreOfPut
  <2>2. ~Binds(p)
    BY <2>1 DEF Binds
  <2>3. CASE Head(stores[p]) = "clear"
    BY <1>1, <1>4, <2>2, <2>3, ClearHolds DEF Shifts, Unbinds
  <2>4. CASE Head(stores[p]) # "clear"
    <3>1. ~Unbinds(p)
      BY <2>1, <2>4 DEF Unbinds
    <3>2. \/ Held(k, Holding(k))
          \/ /\ Head(stores[p]) = "movekey" /\ Held(k, Holding(k) \cup {empty[p]})
             /\ LastPlace(p) \in Holding(k)
          \/ /\ Head(stores[p]) = "unlast" /\ Held(k, Holding(k) \ {LastPlace(p)})
             /\ empty[p] \in Holding(k) /\ empty[p] # LastPlace(p)
      BY <1>1, <1>4, <2>1, <2>4, MoveHolds
    <3> QED
      BY <1>4, <2>1, <2>2, <2>4, <3>1, <3>2 DEF Shifts, Held
  <2> QED
    BY <2>3, <2>4
<1> QED
  BY <1>2, <1>3, <1>4

(* Who has yet to write a value only: it stays so.                          *)
LEMMA StoresQuiet ==
  ASSUME IndInv, NEW p \in Threads, Invoke(p) \/ Work(p), variant' = variant, ~Store(p)
  PROVE  /\ pc[p] # "store" /\ stores[p] = << >>
         /\ \A q \in Threads : stores'[q] = <<"val">> <=> stores[q] = <<"val">>
<1>1. TypeOK /\ Phase(p) /\ pc[p] # "store" /\ stores[p] = << >>
  BY ShrinkStep DEF IndInv, Phase
<1>2. stores'[p] # <<"val">>
  <2>1. CASE SearchEnds(p)
    <3>1. stores'[p] = stores[p] \/ \E f \in {TRUE, FALSE} : stores'[p] = PutStores(f)
      BY <1>1, <2>1 DEF SearchEnds, TypeOK
    <3>2. << >> # <<"val">>
      OBVIOUS
    <3> QED
      BY <1>1, <3>1, <3>2, PutsBegin
  <2>2. CASE SearchRemove(p)
    <3>1. stores'[p] \in {stores[p], <<"clear">>, <<"clear", "moveval", "movekey", "unlast">>}
      BY <1>1, <2>2 DEF SearchRemove, TypeOK
    <3>2. /\ << >> # <<"val">> /\ <<"clear">> # <<"val">>
          /\ <<"clear", "moveval", "movekey", "unlast">> # <<"val">>
      OBVIOUS
    <3> QED
      BY <1>1, <3>1, <3>2
  <2>3. CASE ~SearchEnds(p) /\ ~SearchRemove(p)
    <3>1. stores' = stores
      BY <2>3 DEF Work, Invoke, Return, clht_get, LookVal, LookAgain, bucket_exists, ReadLast,
         LookKey, Lock, Unlock, clht_put, SearchPut, SearchOn, clht_remove, Block, Take, Free, locals
    <3>2. << >> # <<"val">>
      OBVIOUS
    <3> QED
      BY <1>1, <3>1, <3>2
  <2> QED
    BY <2>1, <2>2, <2>3
<1>3. << >> # <<"val">>
  OBVIOUS
<1> QED
  BY <1>1, <1>2, <1>3, OthersStay

(* The value of a place: the one stored there, or about to be.              *)
TheValue(pl) ==
  /\ (\A q \in Threads : ~(empty[q] = pl /\ stores[q] = <<"val">>)) => ValueAt(pl) = ValIn(pl)
  /\ \A q \in Threads : empty[q] = pl /\ stores[q] = <<"val">> => ValueAt(pl) = call[q].val
TheValues == \A pl \in Places : TheValue(pl)

(* All places have theirs.                                                  *)
LEMMA Values == IndInv => TheValues
BY ValueOf DEF TheValues, TheValue

(* That value stays while the key does.                                     *)
LEMMA ValueKept ==
  ASSUME IndInv, IndInv', AllWrites, NEW p \in Threads, Invoke(p) \/ Work(p), variant' = variant,
         NEW k \in Keys, NEW pl \in Holding(k), pl \in Holding(k)'
  PROVE  ValueAt(pl)' = ValueAt(pl)
<1>0. TypeOK /\ TypeOK' /\ pl \in Places /\ KeyIn(pl) = k /\ k # None /\ Used(pl[1], pl[2])
  <2>1. TypeOK /\ TypeOK'
    BY DEF IndInv
  <2>2. pl \in Places /\ KeyIn(pl) = k /\ Used(pl[1], pl[2])
    BY DEF Holding, KeyIn
  <2> QED
    BY <2>1, <2>2, KeysAssumption DEF None
<1>1. /\ (\A q \in Threads : ~(empty[q] = pl /\ stores[q] = <<"val">>)) => ValueAt(pl) = ValIn(pl)
      /\ \A q \in Threads : empty[q] = pl /\ stores[q] = <<"val">> => ValueAt(pl) = call[q].val
  BY <1>0, Values DEF TheValues, TheValue
<1>2. (IndInv => TheValues)'
  BY Values, PTL
<1>3. /\ (\A q \in Threads : ~(empty'[q] = pl /\ stores'[q] = <<"val">>)) => ValueAt(pl)' = ValIn(pl)'
      /\ \A q \in Threads : empty'[q] = pl /\ stores'[q] = <<"val">> => ValueAt(pl)' = call'[q].val
  BY <1>0, <1>2 DEF TheValues, TheValue
<1>4. CASE ~Store(p)
  <2>1. /\ val' = val /\ \A q \in Threads : stores'[q] = <<"val">> <=> stores[q] = <<"val">>
        /\ stores[p] = << >>
    BY <1>4, ValueStays, StoresQuiet
  <2>2. \A q \in Threads : stores[q] = <<"val">> => empty'[q] = empty[q] /\ call'[q] = call[q]
    <3>1. << >> # <<"val">>
      OBVIOUS
    <3> QED
      BY <1>0, <2>1, <3>1, OthersStay
  <2>3. ValIn(pl)' = ValIn(pl)
    BY <2>1 DEF ValIn
  <2>4. CASE \E q \in Threads : empty[q] = pl /\ stores[q] = <<"val">>
    BY <1>1, <1>3, <2>1, <2>2, <2>4
  <2>5. CASE \A q \in Threads : ~(empty[q] = pl /\ stores[q] = <<"val">>)
    BY <1>1, <1>3, <2>1, <2>2, <2>3, <2>5
  <2> QED
    BY <2>4, <2>5
<1>5. CASE Store(p)
  <2>1. /\ \A q \in Threads : q # p => stores[q] = << >> /\ stores'[q] = << >>
        /\ stores'[p] = Tail(stores[p]) /\ empty' = empty /\ call' = call /\ First(stores[p])
        /\ pc[p] = "store" /\ << >> # <<"val">> /\ Writes(p)
    <3>1. << >> # <<"val">>
      OBVIOUS
    <3> QED
      BY <1>5, <3>1, Alone, StorePlaces, StoreEffect DEF AllWrites
  <2>2. CASE empty[p] = pl /\ stores[p] = <<"val">>
    <3>1. ValueAt(pl) = call[p].val
      BY <1>1, <2>2
    <3>2. Head(stores[p]) = "val" /\ stores'[p] = << >>
      BY <2>1, <2>2
    <3>3. ValIn(pl)' = call[p].val
      BY <1>5, <2>2, <3>2, StoreValues DEF ValIn, ValStored
    <3>4. ValueAt(pl)' = ValIn(pl)'
      BY <1>3, <2>1, <3>2
    <3> QED
      BY <3>1, <3>3, <3>4
  <2>3. CASE ~(empty[p] = pl /\ stores[p] = <<"val">>)
    <3>1. ValueAt(pl) = ValIn(pl)
      BY <1>1, <2>1, <2>3
    <3>2. ~(empty[p] = pl /\ stores'[p] = <<"val">>)
      <4> SUFFICES ASSUME empty[p] = pl, Tail(stores[p]) = <<"val">> PROVE FALSE
        BY <2>1
      <4>1. Head(stores[p]) = "key" /\ stores[p] # <<"val">>
        <5>1. /\ <<"val">> # <<"key", "val">> /\ <<"val">> # <<"val", "key">> /\ <<"val">> # <<"key", "val", "last">>
              /\ <<"val">> # <<"key">> /\ <<"val">> # << >> /\ <<"val">> # <<"key", "last">> /\ <<"val">> # <<"last">>
              /\ <<"unlast">> # <<"val">>
          OBVIOUS
        <5>3. Tail(<<"last">>) # <<"val">> /\ Tail(<<"clear">>) # <<"val">> /\ Tail(<<"unlast">>) # <<"val">>
          OBVIOUS
        <5>2. /\ <<"moveval", "movekey", "unlast">> # <<"val">> /\ <<"movekey", "unlast">> # <<"val">>
              /\ Tail(<<"val">>) # <<"val">>
          OBVIOUS
        <5>4. stores[p] # <<"val">>
          BY <5>2
        <5>5. Head(stores[p]) \notin {"link", "val"}
          BY <2>1, <5>1 DEF First
        <5>6. Head(stores[p]) \notin {"last", "clear", "moveval", "movekey", "unlast"}
          BY <2>1, <5>1, <5>2, <5>3 DEF First
        <5> QED
          BY <2>1, <5>4, <5>5, <5>6 DEF First
      <4>2. call[p].op = "put"
        BY <1>5, <4>1, StoreOfPut
      <4>3. variant # "packed"
        <5>1. PutStep(stores[p]) /\ stores[p] \in StoresLeft(p)
          BY <1>5, <4>2, StoreEffect, PutSteps DEF StoresLeft
        <5>2. stores[p] = <<"key", "val">>
          <6>1. << >> # <<"val">> /\ <<"last">> # <<"val">> /\ <<"val", "last">> # <<"val">>
            OBVIOUS
          <6>2. /\ Tail(stores[p]) \notin {<< >>, <<"last">>, <<"val", "last">>}
                /\ Head(stores[p]) \notin {"link", "val", "last"}
            BY <4>1, <6>1
          <6> QED
            BY <5>1, <6>2 DEF PutStep
        <5>3. <<"key", "val">> \notin PutsAhead
          BY DEF PutsAhead
        <5> QED
          BY <4>2, <5>1, <5>2, <5>3 DEF StoresLeft
      <4>4. KeyIn(pl) = None
        BY <2>1, <4>1, <4>2, <4>3 DEF Writes, KeyTo, KeyIn
      <4> QED
        BY <1>0, <4>4
    <3>3. ValueAt(pl)' = ValIn(pl)'
      BY <1>3, <2>1, <3>2
    <3>4. ValIn(pl)' = ValIn(pl)
      <4>1. CASE Head(stores[p]) = "val" /\ pl = empty[p] /\ (variant = "packed" => ~Used(pl[1], pl[2]))
        <5>1. call[p].op = "put" /\ variant # "packed"
          BY <1>0, <1>5, <4>1, StoreOfPut
        <5>2. KeyIn(pl) = None
          BY <2>1, <2>3, <4>1, <5>1 DEF Writes, KeyTo, KeyIn
        <5> QED
          BY <1>0, <5>2
      <4>2. CASE Head(stores[p]) = "moveval" /\ pl = empty[p]
        <5>1. call[p].op = "remove"
          BY <1>5, <4>2, MoveState
        <5>2. KeyIn(pl) = None
          BY <2>1, <4>2, <5>1 DEF Writes, KeyTo, KeyIn
        <5> QED
          BY <1>0, <5>2
      <4> QED
        BY <1>0, <4>1, <4>2, ValueFrom
    <3> QED
      BY <3>1, <3>3, <3>4
  <2> QED
    BY <2>2, <2>3
<1> QED
  BY <1>4, <1>5

-----------------------------------------------------------------------------
(* What the map says of a key, all its entries say.                         *)
Mapped == \A k \in Keys : /\ Holding(k) = {} => AbsMap[k] = None
                          /\ \A pl \in Holding(k) : AbsMap[k] = ValueAt(pl)

(* So it is, even of a key that is being moved.                             *)
LEMMA MapIs == IndInv /\ AllWrites => Mapped
BY MapValue DEF Mapped

(* Only the steps that bind and unbind change the map, at their key.        *)
LEMMA AbsStep ==
  ASSUME IndInv, IndInv', AllWrites, AllWrites', NEW p \in Threads, Invoke(p) \/ Work(p),
         variant' = variant, Blocks(p), Looking(p), NEW k \in Keys
  PROVE  /\ Binds(p) /\ k = call[p].key => AbsMap[k] = None /\ AbsMap'[k] = call[p].val
         /\ Unbinds(p) /\ k = call[p].key => AbsMap'[k] = None /\ Holding(k) # {}
         /\ k # call[p].key \/ (~Binds(p) /\ ~Unbinds(p)) =>
              AbsMap'[k] = AbsMap[k] /\ (Holding(k)' # {} => Holding(k) # {})
<1>1. Mapped
  BY MapIs
<1>2. (IndInv /\ AllWrites => Mapped)'
  BY MapIs, PTL
<1>3. /\ Holding(k)' = {} => AbsMap'[k] = None
      /\ \A pl \in Holding(k)' : AbsMap'[k] = ValueAt(pl)'
  BY <1>2 DEF Mapped
<1>4. ~(Binds(p) /\ Unbinds(p))
  BY DEF Binds, Unbinds, Store, Block
<1>5. CASE Binds(p) /\ k = call[p].key
  <2>1. Holding(k) = {} /\ Holding(k)' = {empty[p]}
    BY <1>4, <1>5, KeyMoves DEF Shifts, Held
  <2>2. ValueAt(empty[p])' = call[p].val
    <3>1. /\ Store(p) /\ pc[p] = "store" /\ First(stores[p]) /\ empty' = empty /\ call' = call
          /\ Head(stores[p]) \in {"last", "key"} /\ stores'[p] = Tail(stores[p])
          /\ empty[p] \in Places /\ val' = val /\ Writes(p)
      BY <1>5, StoreEffect, StorePlaces, StoreValues DEF Binds, AllWrites
    <3>2. PICK pl \in Places : pl = empty[p]
      BY <3>1
    <3>3. (IndInv => TheValues)'
      BY Values, PTL
    <3>4. /\ (\A q \in Threads : ~(empty'[q] = pl /\ stores'[q] = <<"val">>)) => ValueAt(pl)' = ValIn(pl)'
          /\ \A q \in Threads : empty'[q] = pl /\ stores'[q] = <<"val">> => ValueAt(pl)' = call'[q].val
      BY <3>3 DEF TheValues, TheValue
    <3>5. CASE stores'[p] = <<"val">>
      BY <3>1, <3>2, <3>4, <3>5
    <3>6. CASE stores'[p] # <<"val">>
      <4>1. \A q \in Threads : q # p => stores'[q] = << >>
        BY <3>1, Alone
      <4>2. << >> # <<"val">>
        OBVIOUS
      <4>3. ValueAt(pl)' = ValIn(pl)'
        BY <3>4, <3>6, <4>1, <4>2
      <4>4. call[p].op = "put" /\ PutStep(stores[p]) /\ stores[p] \in StoresLeft(p)
        BY <3>1, StoreEffect, StoreOfPut, PutSteps DEF StoresLeft
      <4>5. stores[p] \in Written
        <5>1. stores[p] \in {<<"last">>, <<"key">>, <<"key", "last">>, <<"key", "val", "last">>}
          BY <3>1, <3>6, <4>4 DEF PutStep
        <5>2. variant # "packed" => stores[p] \notin {<<"key", "last">>, <<"key", "val", "last">>}
          <6>1. /\ <<"key", "last">> \notin KeyAhead \cup {<<"val">>}
                /\ <<"key", "val", "last">> \notin KeyAhead \cup {<<"val">>}
            BY DEF KeyAhead
          <6> QED
            BY <4>4, <6>1 DEF StoresLeft
        <5>3. variant = "packed" => Head(stores[p]) = "last"
          BY <1>5 DEF Binds
        <5>4. Head(<<"key", "val", "last">>) = "key"
          OBVIOUS
        <5> QED
          BY <5>1, <5>2, <5>3, <5>4 DEF Written
      <4>6. ValIn(pl) = call[p].val
        BY <3>1, <3>2, <4>4, <4>5 DEF Writes, ValTo, ValIn
      <4> QED
        BY <3>1, <3>2, <4>3, <4>6 DEF ValIn
    <3> QED
      BY <3>5, <3>6
  <2>3. empty'[p] = empty[p]
    BY <1>5, StorePlaces DEF Binds
  <2> QED
    BY <1>1, <1>3, <1>4, <1>5, <2>1, <2>2, <2>3 DEF Mapped
<1>6. CASE Unbinds(p) /\ k = call[p].key
  <2>1. Holding(k) # {} /\ Holding(k)' = {}
    BY <1>4, <1>6, KeyMoves DEF Shifts, Held
  <2> QED
    BY <1>3, <1>4, <1>6, <2>1
<1>7. CASE k # call[p].key \/ (~Binds(p) /\ ~Unbinds(p))
  <2>1. Shifts(p, k)
    BY <1>7, KeyMoves
  <2>2. CASE \E pl \in Holding(k) : pl \in Holding(k)'
    <3>1. PICK pl \in Holding(k) : pl \in Holding(k)'
      BY <2>2
    <3>2. ValueAt(pl)' = ValueAt(pl)
      BY <3>1, ValueKept
    <3> QED
      BY <1>1, <1>3, <1>7, <3>1, <3>2 DEF Mapped
  <2>3. CASE Holding(k)' = Holding(k)
    <3>1. CASE Holding(k) = {}
      BY <1>1, <1>3, <1>7, <2>3, <3>1 DEF Mapped
    <3>2. CASE Holding(k) # {}
      BY <2>2, <2>3, <3>2
    <3> QED
      BY <3>1, <3>2
  <2> QED
    BY <2>1, <2>2, <2>3 DEF Shifts, Held
<1> QED
  BY <1>5, <1>6, <1>7

(* A key that is there has a value; where it is, that value is or is about  *)
(* to be written.                                                           *)
Stored == \A k \in Keys : /\ AbsMap[k] \in Vals \cup {None}
                          /\ AbsMap[k] = None <=> Holding(k) = {}
                          /\ \A pl \in Holding(k) : \/ ValIn(pl) = AbsMap[k]
                                                    \/ variant = "lb" /\ ValIn(pl) = Junk

(* This follows from what the threads know.                                 *)
LEMMA StoredIs == IndInv /\ AllWrites /\ FreshValues /\ HeldValues => Stored
<1> SUFFICES ASSUME IndInv, AllWrites, FreshValues, HeldValues, NEW k \in Keys
             PROVE  /\ AbsMap[k] \in Vals \cup {None}
                    /\ AbsMap[k] = None <=> Holding(k) = {}
                    /\ \A pl \in Holding(k) : \/ ValIn(pl) = AbsMap[k]
                                              \/ variant = "lb" /\ ValIn(pl) = Junk
  BY DEF Stored
<1>1. Mapped /\ TheValues
  BY MapIs, Values
<1>2. puts \in 0..MaxPuts /\ MaxPuts \in Nat
  BY SizesAssumption DEF IndInv, TypeOK
<1>3. None \notin Vals
  BY <1>2 DEF None, Vals
<1>4. ASSUME NEW pl \in Holding(k)
      PROVE  /\ AbsMap[k] \in Vals
             /\ ValIn(pl) = AbsMap[k] \/ (variant = "lb" /\ ValIn(pl) = Junk)
  <2>1. AbsMap[k] = ValueAt(pl) /\ pl \in Places
    BY <1>1 DEF Mapped, Holding
  <2>2. CASE \E q \in Threads : empty[q] = pl /\ stores[q] = <<"val">>
    <3>1. PICK q \in Threads : empty[q] = pl /\ stores[q] = <<"val">>
      BY <2>2
    <3>2. ValueAt(pl) = call[q].val /\ pc[q] = "store" /\ call[q].op = "put"
      BY <1>1, <2>1, <3>1, OnlyValue DEF TheValues, TheValue
    <3>3. call[q].val \in Vals
      BY <1>2, <3>2 DEF FreshValues, Vals
    <3>4. variant = "lb" /\ ValIn(pl) = Junk
      BY <3>1, <3>2, Kinds DEF AllWrites, Writes, ValTo, ValIn
    <3> QED
      BY <2>1, <3>2, <3>3, <3>4
  <2>3. CASE \A q \in Threads : ~(empty[q] = pl /\ stores[q] = <<"val">>)
    BY <1>1, <2>1, <2>3 DEF TheValues, TheValue, HeldValues, ValIn
  <2> QED
    BY <2>2, <2>3
<1>5. Holding(k) = {} => AbsMap[k] = None
  BY <1>1 DEF Mapped
<1> QED
  BY <1>3, <1>4, <1>5

(* Every entry has a value after a step.                                    *)
LEMMA HeldStep ==
  ASSUME IndInv, IndInv', AnswersInv, AllWrites', Next
  PROVE  HeldValues'
<1>0. AllWrites /\ FreshValues /\ HeldValues
  BY DEF AnswersInv, AllWrites
<1>1. PICK p \in Threads : Invoke(p) \/ Work(p)
  BY DEF Next
<1>2. variant' = variant /\ Blocks(p) /\ Looking(p)
  BY DEF Next, AnswersInv
<1>3. Stored /\ puts \in 0..MaxPuts /\ MaxPuts \in Nat
  BY <1>0, StoredIs, SizesAssumption DEF IndInv, TypeOK
<1>4. (IndInv => TheValues)' /\ (IndInv /\ AllWrites => Mapped)'
  BY Values, MapIs, PTL
<1>5. ASSUME NEW k \in Keys, NEW pl \in Holding(k)',
             \A q \in Threads : ~(empty'[q] = pl /\ stores'[q] = <<"val">>)
      PROVE  ValIn(pl)' \in Vals
  <2>1. pl \in Places /\ ValueAt(pl)' = ValIn(pl)' /\ AbsMap'[k] = ValueAt(pl)'
    <3>1. pl \in Places
      BY DEF Holding
    <3> QED
      BY <1>4, <1>5, <3>1 DEF TheValues, TheValue, Mapped
  <2>2. AbsMap'[k] \in Vals
    <3>1. CASE Binds(p) /\ k = call[p].key
      <4>1. AbsMap'[k] = call[p].val
        BY <1>0, <1>1, <1>2, <3>1, AbsStep
      <4>2. call[p].op = "put"
        BY <3>1, StoreOfPut DEF Binds
      <4> QED
        BY <1>0, <1>3, <4>1, <4>2 DEF FreshValues, Vals
    <3>2. CASE Unbinds(p) /\ k = call[p].key
      <4>1. ~Binds(p)
        BY <3>2 DEF Binds, Unbinds, Store, Block
      <4>2. Held(k, {})
        BY <1>0, <1>1, <1>2, <3>2, <4>1, KeyMoves DEF Shifts
      <4> QED
        BY <1>5, <4>2 DEF Held
    <3>3. CASE k # call[p].key \/ (~Binds(p) /\ ~Unbinds(p))
      <4>1. AbsMap'[k] = AbsMap[k] /\ Holding(k) # {}
        BY <1>0, <1>1, <1>2, <1>5, <3>3, AbsStep
      <4> QED
        BY <1>3, <4>1 DEF Stored
    <3> QED
      BY <3>1, <3>2, <3>3
  <2> QED
    BY <2>1, <2>2
<1> QED
  BY <1>5 DEF HeldValues, ValIn

-----------------------------------------------------------------------------
(* What has been seen of its key by every open call.                        *)
LEMMA SeenStep ==
  ASSUME IndInv, AnswersInv, Next, NEW p \in Threads, Invoke(p) \/ Work(p)
  PROVE  /\ \A q \in Threads : q # p => seen'[q] = IF pc[q] = "idle" THEN {}
                                                   ELSE seen[q] \cup {AbsMap'[call[q].key]}
         /\ Invoke(p) => seen'[p] = {AbsMap'[call'[p].key]}
         /\ Return(p) => seen'[p] = {}
         /\ Work(p) /\ ~Return(p) => /\ pc[p] # "idle" /\ call' = call
                                     /\ seen'[p] = seen[p] \cup {AbsMap'[call[p].key]}
<1>0. TypeOK /\ Watch
  BY DEF IndInv, Next
<1>1. Idle \notin Calls
  BY DEF Idle, Calls
<1>2. \A q \in Threads : pc[q] = "idle" <=> call[q] = Idle
  BY <1>1 DEF IndInv, AnswersInv, Phase, Outcome
<1>3. \A q \in Threads : seen'[q] = IF call'[q] = Idle THEN {}
                                    ELSE IF call[q] = Idle THEN {AbsMap'[call'[q].key]}
                                    ELSE seen[q] \cup {AbsMap'[call[q].key]}
  BY <1>0 DEF Watch
<1>4. ASSUME NEW q \in Threads, q # p
      PROVE  seen'[q] = IF pc[q] = "idle" THEN {} ELSE seen[q] \cup {AbsMap'[call[q].key]}
  BY <1>0, <1>2, <1>3, <1>4, OthersStay
<1>5. CASE Invoke(p)
  <2>1. pc[p] = "idle" /\ call'[p] # Idle
    BY <1>0, <1>5, InvokeCall
  <2>2. ~Work(p) /\ ~Return(p)
    <3>1. ~Return(p) /\ ~clht_get(p) /\ ~bucket_exists(p)
      BY <2>1, <1>2 DEF Return, clht_get, LookVal, LookAgain, bucket_exists, ReadLast, LookKey
    <3>2. ~Lock(p) /\ ~Unlock(p) /\ ~clht_put(p) /\ ~Store(p) /\ ~clht_remove(p)
      BY <2>1 DEF Lock, Unlock, clht_put, SearchPut, SearchOn, SearchEnds, Store, clht_remove,
         SearchRemove, Block, Take, Free
    <3> QED
      BY <3>1, <3>2 DEF Work
  <2> QED
    BY <1>2, <1>3, <1>4, <2>1, <2>2
<1>6. CASE Return(p)
  <2>1. call'[p] = Idle /\ ~Invoke(p)
    BY <1>0, <1>6 DEF Return, Invoke, TypeOK
  <2> QED
    BY <1>3, <1>4, <1>6, <2>1
<1>7. CASE Work(p) /\ ~Return(p) /\ ~Invoke(p)
  <2>1. call' = call
    BY <1>7, CallStays
  <2>2. pc[p] # "idle"
    <3>1. CASE clht_get(p) \/ bucket_exists(p)
      BY <1>0, <3>1 DEF clht_get, LookVal, LookAgain, bucket_exists, ReadLast, LookKey
    <3>2. CASE Lock(p) \/ Unlock(p) \/ clht_put(p) \/ Store(p) \/ clht_remove(p)
      BY <1>0, <3>2 DEF Lock, Unlock, clht_put, SearchPut, SearchOn, SearchEnds, Store, clht_remove,
         SearchRemove, Block, Take, Free
    <3> QED
      BY <1>7, <3>1, <3>2 DEF Work
  <2> QED
    BY <1>2, <1>3, <1>4, <1>7, <2>1, <2>2
<1> QED
  BY <1>5, <1>6, <1>7

(* The outcomes of the other threads stand.                                 *)
LEMMA OutcomeStays ==
  ASSUME IndInv, AnswersInv, Next, NEW p \in Threads, Invoke(p) \/ Work(p), NEW q \in Threads, q # p
  PROVE  Outcome(q)'
<1>1. /\ TypeOK /\ Outcome(q) /\ variant' = variant
      /\ pc'[q] = pc[q] /\ call'[q] = call[q] /\ stores'[q] = stores[q] /\ ret'[q] = ret[q]
      /\ seen'[q] = IF pc[q] = "idle" THEN {} ELSE seen[q] \cup {AbsMap'[call[q].key]}
  <2>1. TypeOK /\ Outcome(q) /\ variant' = variant
    BY DEF IndInv, AnswersInv, Next
  <2>2. seen'[q] = IF pc[q] = "idle" THEN {} ELSE seen[q] \cup {AbsMap'[call[q].key]}
    BY SeenStep
  <2> QED
    BY <2>1, <2>2, OthersStay, OthersKeep
<1>2. AbsMap'[call'[q].key] = AbsMap'[call[q].key]
  BY <1>1
<1>3. CASE pc[q] = "idle"
  BY <1>1, <1>3 DEF Outcome
<1>4. CASE pc[q] # "idle"
  <2>1. seen[q] \subseteq seen'[q] /\ AbsMap'[call'[q].key] \in seen'[q]
    BY <1>1, <1>2, <1>4
  <2>2. /\ pc[q] \in {"key", "again"} => call[q].op = "get"
        /\ pc[q] \in {"block", "take", "free"} => call[q].op = "remove"
        /\ pc[q] = "unlock" => call[q].op # "get"
        /\ variant = "lock_ins" /\ call[q].op = "remove" =>
             pc[q] \notin {"lock", "search", "store", "unlock"}
        /\ pc[q] \in {"idle", "last", "look", "key", "again", "lock", "search", "block", "take"} =>
             ret[q] = None
        /\ pc[q] = "store" => IF call[q].op = "remove" THEN ret[q] \in Vals
                              ELSE ret[q] = IF stores[q] = <<"val">> THEN call[q].val ELSE None
    BY <1>1 DEF Outcome
  <2>3. pc[q] = "unlock" => \/ ret[q] # None
                            \/ call[q].op = "put" /\ seen'[q] \cap Vals # {}
                            \/ call[q].op = "remove" /\ None \in seen'[q]
    BY <1>1, <2>1 DEF Outcome
  <2> QED
    BY <1>1, <1>4, <2>1, <2>2, <2>3 DEF Outcome
<1> QED
  BY <1>3, <1>4

(* A call that goes on stays open and sees its key once more.               *)
LEMMA GoesOn ==
  ASSUME IndInv, AnswersInv, Next, NEW p \in Threads, Work(p), ~Return(p)
  PROVE  /\ TypeOK /\ Phase(p) /\ Outcome(p) /\ variant' = variant
         /\ pc[p] # "idle" /\ pc'[p] # "idle" /\ call' = call /\ call[p] \in Calls
         /\ call[p].key \in Keys
         /\ seen[p] \subseteq seen'[p] /\ AbsMap'[call'[p].key] \in seen'[p]
<1>1. TypeOK /\ Phase(p) /\ Outcome(p) /\ variant' = variant
  BY DEF IndInv, AnswersInv, Next
<1>2. pc[p] # "idle" /\ call' = call /\ seen'[p] = seen[p] \cup {AbsMap'[call[p].key]}
  BY SeenStep
<1>3. pc'[p] # "idle"
  <2>1. CASE clht_get(p) \/ bucket_exists(p)
    BY <1>1, <2>1 DEF clht_get, LookVal, LookAgain, bucket_exists, ReadLast, LookKey, Found,
       Advance, Missing, Goto, TypeOK
  <2>2. CASE Lock(p) \/ Unlock(p) \/ clht_put(p) \/ Store(p)
    BY <1>1, <1>2, <2>2 DEF Lock, Unlock, clht_put, SearchPut, SearchOn, SearchEnds, Store,
       Goto, TypeOK
  <2>3. CASE clht_remove(p)
    BY <1>1, <1>2, <2>3 DEF clht_remove, SearchRemove, Block, Take, Free, Goto, TypeOK
  <2> QED
    BY <2>1, <2>2, <2>3 DEF Work
<1>4. call[p] \in Calls /\ call[p].key \in Keys
  BY <1>1, <1>2, CallTypes DEF Phase
<1> QED
  BY <1>1, <1>2, <1>3, <1>4

(* A call begins, and returns, with nothing done.                           *)
LEMMA OutcomeCalls ==
  ASSUME IndInv, AnswersInv, Next, NEW p \in Threads, Invoke(p) \/ Return(p)
  PROVE  Outcome(p)'
<1>1. TypeOK /\ Outcome(p)
  BY DEF IndInv, AnswersInv
<1>2. CASE Invoke(p)
  <2>1. pc'[p] \in {"last", "look"} /\ ret'[p] = ret[p] /\ ret[p] = None
    BY <1>1, <1>2, InvokeCall DEF Begin, Outcome, locals
  <2>2. AbsMap'[call'[p].key] \in seen'[p]
    BY <1>2, SeenStep
  <2> QED
    BY <2>1, <2>2 DEF Outcome
<1>3. CASE Return(p)
  <2>1. pc'[p] = "idle" /\ call'[p] = Idle /\ ret'[p] = None
    BY <1>1, <1>3 DEF Return, Goto, TypeOK
  <2>2. seen'[p] = {}
    BY <1>3, SeenStep DEF Work
  <2>3. Idle.op = "idle"
    BY DEF Idle
  <2> QED
    BY <2>1, <2>2, <2>3 DEF Outcome
<1> QED
  BY <1>2, <1>3

(* A search without the lock has nothing to show for until it ends.         *)
LEMMA OutcomeLooks ==
  ASSUME IndInv, AnswersInv, Next, NEW p \in Threads, clht_get(p) \/ bucket_exists(p)
  PROVE  Outcome(p)'
<1>0. ~Return(p)
  BY DEF Return, clht_get, LookVal, LookAgain, bucket_exists, ReadLast, LookKey
<1>1. /\ TypeOK /\ Phase(p) /\ Outcome(p) /\ variant' = variant
      /\ pc'[p] # "idle" /\ call' = call /\ call[p] \in Calls
      /\ AbsMap'[call'[p].key] \in seen'[p]
  BY <1>0, GoesOn DEF Work
<1>2. call[p].op \in {"put", "get", "remove"}
  BY <1>1 DEF Calls
<1>3. CASE LookVal(p)
  <2>1. pc'[p] = "key" /\ call[p].op = "get" /\ pc[p] = "look" /\ ret' = ret
    BY <1>1, <1>3 DEF LookVal, Goto, TypeOK
  <2> QED
    BY <1>1, <2>1 DEF Outcome
<1>4. CASE LookAgain(p)
  <2>1. pc'[p] = "done"
    BY <1>1, <1>4 DEF LookAgain, Goto, TypeOK
  <2> QED
    BY <1>1, <2>1 DEF Outcome
<1>5. CASE bucket_exists(p)
  <2>1. pc[p] \in {"last", "look", "key"} /\ ret' = ret
    BY <1>5 DEF bucket_exists, ReadLast, LookKey
  <2>2. /\ pc'[p] \in {"last", "look", "done", "again", "block", "lock"}
        /\ pc'[p] = "again" => call[p].op = "get"
        /\ pc'[p] = "block" => call[p].op = "remove"
        /\ pc'[p] = "lock" => variant # "lock_ins" \/ call[p].op = "put"
    BY <1>1, <1>2, <1>5 DEF bucket_exists, ReadLast, LookKey, Found, Advance, Missing, Goto, TypeOK
  <2>3. ret[p] = None
    BY <1>1, <2>1 DEF Outcome
  <2> QED
    BY <1>1, <2>1, <2>2, <2>3 DEF Outcome
<1> QED
  BY <1>3, <1>4, <1>5 DEF clht_get

(* Under the lock a key that is found is there, with its value.             *)
LEMMA LockedFinds ==
  ASSUME IndInv, AnswersInv, NEW p \in Threads, pc[p] = "search", j[p] <= Limit(p),
         KeyAt(p) = call[p].key, call[p].key \in Keys
  PROVE  /\ <<b[p], j[p]>> \in Holding(call[p].key) /\ ValAt(p) \in Vals
         /\ AbsMap[call[p].key] \in Vals
<1>1. TypeOK /\ Searching(p) /\ Stored
  <2>1. AllWrites
    BY DEF AnswersInv, AllWrites
  <2> QED
    BY <2>1, StoredIs DEF IndInv, AnswersInv
<1>2. <<b[p], j[p]>> \in Places
  BY <1>1, SearchPlace
<1>3. Used(b[p], j[p])
  BY <1>1 DEF Searching, Used, Limit
<1>4. <<b[p], j[p]>> \in Holding(call[p].key)
  BY <1>2, <1>3 DEF Holding, KeyAt
<1>5. ASSUME NEW q \in Threads PROVE stores[q] # <<"val">>
  <2>1. pc[q] # "store"
    BY <1>1, Holder
  <2> QED
    BY <2>1, OnlyValue
<1>6. ValIn(<<b[p], j[p]>>) \in Vals
  BY <1>4, <1>5 DEF AnswersInv, HeldValues, ValIn
<1>7. AbsMap[call[p].key] # None /\ AbsMap[call[p].key] \in Vals \cup {None}
  BY <1>1, <1>4 DEF Stored
<1> QED
  BY <1>4, <1>6, <1>7 DEF ValIn, ValAt

(* What a thread does under the lock before it stores.                      *)
LEMMA OutcomeLocks ==
  ASSUME IndInv, AnswersInv, Next, NEW p \in Threads,
         Lock(p) \/ Unlock(p) \/ clht_put(p) \/ SearchRemove(p)
  PROVE  Outcome(p)'
<1>0. ~Return(p)
  BY DEF Return, Lock, Unlock, clht_put, SearchPut, SearchOn, SearchEnds, SearchRemove
<1>1. /\ TypeOK /\ Phase(p) /\ Outcome(p) /\ variant' = variant /\ Writes(p)
      /\ pc'[p] # "idle" /\ call' = call /\ call[p] \in Calls /\ call[p].key \in Keys
      /\ seen[p] \subseteq seen'[p] /\ AbsMap'[call'[p].key] \in seen'[p]
      /\ AbsMap[call[p].key] \in seen[p]
  <2>1. Writes(p)
    BY DEF AnswersInv
  <2>2. AbsMap[call[p].key] \in seen[p]
    <3>1. Outcome(p) /\ pc[p] # "idle"
      BY <1>0, GoesOn DEF Work, clht_remove
    <3> QED
      BY <3>1 DEF Outcome
  <2> QED
    BY <1>0, <2>1, <2>2, GoesOn DEF Work, clht_remove
<1>2. CASE Lock(p)
  <2>1. pc[p] = "lock" /\ pc'[p] = "search" /\ ret' = ret
    BY <1>1, <1>2 DEF Lock, Goto, TypeOK
  <2> QED
    BY <1>1, <2>1 DEF Outcome
<1>3. CASE Unlock(p)
  <2>1. pc'[p] = "done"
    BY <1>1, <1>3 DEF Unlock, Goto, TypeOK
  <2> QED
    BY <1>1, <2>1 DEF Outcome
<1>4. CASE SearchPut(p)
  <2>1. pc[p] = "search" /\ call[p].op = "put" /\ j[p] <= Limit(p) /\ ret' = ret
    BY <1>4 DEF SearchPut
  <2>2. CASE KeyAt(p) = call[p].key
    <3>1. pc'[p] = "unlock"
      BY <1>1, <1>4, <2>2 DEF SearchPut, Goto, TypeOK
    <3>2. seen'[p] \cap Vals # {}
      BY <1>1, <2>1, <2>2, LockedFinds
    <3> QED
      BY <1>1, <2>1, <3>1, <3>2 DEF Outcome
  <2>3. CASE KeyAt(p) # call[p].key
    <3>1. pc' = pc
      BY <1>4, <2>3 DEF SearchPut
    <3> QED
      BY <1>1, <2>1, <3>1 DEF Outcome
  <2> QED
    BY <2>2, <2>3
<1>5. CASE SearchOn(p)
  <2>1. pc[p] = "search" /\ pc' = pc /\ ret' = ret
    BY <1>5 DEF SearchOn
  <2> QED
    BY <1>1, <2>1 DEF Outcome
<1>6. CASE SearchEnds(p)
  <2>1. /\ pc[p] = "search" /\ j[p] > Limit(p) /\ ~(Full(p) /\ b[p] < linked)
        /\ ret' = ret /\ ret[p] = None /\ call[p].op \in {"put", "remove"}
    BY <1>1, <1>6 DEF SearchEnds, Outcome, Phase
  <2>2. CASE call[p].op = "remove"
    <3>1. pc'[p] = "unlock"
      BY <1>1, <1>6, <2>2 DEF SearchEnds, Goto, TypeOK
    <3>2. Holding(call[p].key) = {}
      BY <1>1, <2>1, NotFound
    <3>3. AbsMap[call[p].key] = None
      BY <1>1, <3>2 DEF AbsMap
    <3>4. variant # "lock_ins"
      BY <1>1, <2>1, <2>2 DEF Outcome
    <3> QED
      BY <1>1, <2>2, <3>1, <3>3, <3>4 DEF Outcome
  <2>3. CASE call[p].op = "put"
    <3>1. pc'[p] = "store" /\ \E f \in {TRUE, FALSE} : stores'[p] = PutStores(f)
      BY <1>1, <1>6, <2>3 DEF SearchEnds, Goto, TypeOK
    <3>2. stores'[p] # <<"val">>
      BY <3>1, PutsBegin
    <3> QED
      BY <1>1, <2>1, <2>3, <3>1, <3>2 DEF Outcome
  <2> QED
    BY <2>1, <2>2, <2>3
<1>7. CASE SearchRemove(p)
  <2>1. pc[p] = "search" /\ call[p].op = "remove" /\ j[p] <= Limit(p)
    BY <1>7 DEF SearchRemove
  <2>2. variant # "lock_ins"
    BY <1>1, <2>1 DEF Outcome
  <2>3. CASE KeyAt(p) = call[p].key
    <3>1. pc'[p] = "store" /\ ret'[p] = ValAt(p)
      BY <1>1, <1>7, <2>3 DEF SearchRemove, Goto, TypeOK
    <3>2. ValAt(p) \in Vals
      BY <1>1, <2>1, <2>3, LockedFinds
    <3> QED
      BY <1>1, <2>1, <2>2, <3>1, <3>2 DEF Outcome
  <2>4. CASE KeyAt(p) # call[p].key
    <3>1. pc' = pc /\ ret' = ret
      BY <1>7, <2>4 DEF SearchRemove
    <3> QED
      BY <1>1, <2>1, <3>1 DEF Outcome
  <2> QED
    BY <2>3, <2>4
<1> QED
  BY <1>2, <1>3, <1>4, <1>5, <1>6, <1>7 DEF clht_put

(* The result of an update, store by store.                                 *)
LEMMA PutRests ==
  ASSUME NEW p \in Threads, call[p].op = "put", stores[p] \in StoresLeft(p)
  PROVE  LET s == stores[p]
             binds == Head(s) = (IF variant = "packed" THEN "last" ELSE "key")
         IN  /\ binds => Tail(s) \in {<<"val">>, << >>} /\ s # <<"val">>
             /\ ~binds /\ s # <<"val">> => Tail(s) # << >> /\ Tail(s) # <<"val">>
             /\ s = <<"val">> => Tail(s) = << >> /\ ~binds
<1> DEFINE s == stores[p]
           binds == Head(s) = (IF variant = "packed" THEN "last" ELSE "key")
<1>1. PutStep(s)
  BY PutSteps DEF StoresLeft
<1>2. /\ <<"key", "val">> # << >> /\ <<"val", "key">> # << >> /\ <<"key", "val", "last">> # << >>
      /\ <<"val", "last">> # << >> /\ <<"last">> # << >> /\ <<"key", "last">> # << >> /\ <<"key">> # << >>
      /\ <<"last">> # <<"val">> /\ <<"key">> # <<"val">>
  OBVIOUS
<1>3. /\ <<"key", "val">> # <<"val">> /\ <<"val", "key">> # <<"val">> /\ <<"key", "val", "last">> # <<"val">>
      /\ <<"val", "last">> # <<"val">> /\ <<"key", "last">> # <<"val">>
  OBVIOUS
<1>4. CASE variant = "packed"
  <2>1. s \in PutsAhead
    BY <1>4 DEF StoresLeft
  <2>2. <<"val">> \notin PutsAhead /\ <<"key", "val">> \notin PutsAhead /\ <<"key">> \notin PutsAhead
        /\ <<"val", "key">> \notin PutsAhead
    BY DEF PutsAhead
  <2>3. s # <<"val">> /\ s # <<"key", "val">> /\ s # <<"key">> /\ s # <<"val", "key">>
    BY <2>1, <2>2
  <2>4. CASE Head(s) = "last"
    BY <1>1, <1>4, <2>3, <2>4 DEF PutStep
  <2>5. CASE Head(s) # "last"
    <3>1. Tail(s) \in {<<"key", "val">>, <<"val", "key">>, <<"key", "val", "last">>, <<"val", "last">>,
                       <<"last">>, <<"key", "last">>}
      BY <1>1, <2>3, <2>5 DEF PutStep
    <3> QED
      BY <1>2, <1>3, <1>4, <2>3, <2>5, <3>1
  <2> QED
    BY <2>4, <2>5
<1>5. CASE variant # "packed"
  <2>1. s \in KeyAhead \cup {<<"val">>}
    BY <1>5 DEF StoresLeft
  <2>2. <<"key", "val", "last">> \notin KeyAhead \cup {<<"val">>}
        /\ <<"key", "last">> \notin KeyAhead \cup {<<"val">>} /\ <<"last">> \notin KeyAhead \cup {<<"val">>}
    BY DEF KeyAhead
  <2>3. s # <<"key", "val", "last">> /\ s # <<"key", "last">> /\ s # <<"last">>
    BY <2>1, <2>2
  <2>4. CASE Head(s) = "key"
    <3>1. Tail(s) \in {<<"val">>, << >>}
      BY <1>1, <2>3, <2>4 DEF PutStep
    <3>2. s # <<"val">>
      BY <2>4
    <3> QED
      BY <1>5, <2>4, <3>1, <3>2
  <2>5. CASE Head(s) # "key" /\ s # <<"val">>
    <3>1. Tail(s) \in {<<"key", "val">>, <<"val", "key">>, <<"key", "val", "last">>, <<"last">>,
                       <<"key">>, <<"key", "last">>}
      BY <1>1, <2>3, <2>5 DEF PutStep
    <3> QED
      BY <1>2, <1>3, <1>5, <2>5, <3>1
  <2>6. CASE s = <<"val">>
    <3>1. Head(s) = "val" /\ Tail(s) = << >>
      BY <2>6
    <3> QED
      BY <1>5, <2>6, <3>1
  <2> QED
    BY <2>4, <2>5, <2>6
<1> QED
  BY <1>4, <1>5

(* A put has its result once its entry counts.                              *)
LEMMA OutcomeStores ==
  ASSUME IndInv, AnswersInv, Next, NEW p \in Threads, Store(p)
  PROVE  Outcome(p)'
<1>0. ~Return(p)
  BY DEF Return, Store
<1>1. /\ TypeOK /\ Outcome(p) /\ variant' = variant
      /\ pc'[p] # "idle" /\ call' = call /\ AbsMap'[call'[p].key] \in seen'[p]
  BY <1>0, GoesOn DEF Work
<1>2. /\ pc[p] = "store" /\ stores'[p] = Tail(stores[p]) /\ stores[p] \in StoresLeft(p)
      /\ pc'[p] = IF Tail(stores[p]) = << >> THEN "unlock" ELSE "store"
      /\ call[p].op \in {"put", "remove"}
  BY StoreEffect, StorePlaces
<1>3. puts \in 0..MaxPuts /\ MaxPuts \in Nat /\ None \notin Vals
  BY <1>1, SizesAssumption DEF TypeOK, None, Vals
<1>4. CASE call[p].op = "remove"
  <2>1. ret' = ret /\ ret[p] \in Vals /\ variant # "lock_ins"
    BY <1>1, <1>2, <1>4 DEF Store, Outcome
  <2> QED
    BY <1>1, <1>2, <1>3, <1>4, <2>1 DEF Outcome
<1>5. CASE call[p].op = "put"
  <2> DEFINE binds == Head(stores[p]) = (IF variant = "packed" THEN "last" ELSE "key")
  <2>1. ret'[p] = IF binds THEN call[p].val ELSE ret[p]
    <3>1. CASE binds
      BY <1>1, <1>5, <3>1 DEF Store, TypeOK
    <3>2. CASE ~binds
      BY <1>1, <1>5, <3>2 DEF Store
    <3> QED
      BY <3>1, <3>2
  <2>2. ret[p] = IF stores[p] = <<"val">> THEN call[p].val ELSE None
    BY <1>1, <1>2, <1>5 DEF Outcome
  <2>3. call[p].val # None
    BY <1>3, <1>5 DEF AnswersInv, FreshValues, None
  <2>4. /\ binds => Tail(stores[p]) \in {<<"val">>, << >>} /\ stores[p] # <<"val">>
        /\ ~binds /\ stores[p] # <<"val">> => Tail(stores[p]) # << >> /\ Tail(stores[p]) # <<"val">>
        /\ stores[p] = <<"val">> => Tail(stores[p]) = << >> /\ ~binds
    BY <1>2, <1>5, PutRests
  <2> HIDE DEF binds
  <2>5. /\ pc'[p] = "store" => ret'[p] = IF stores'[p] = <<"val">> THEN call[p].val ELSE None
        /\ pc'[p] = "unlock" => ret'[p] # None
    BY <1>2, <2>1, <2>2, <2>3, <2>4
  <2> QED
    BY <1>1, <1>2, <1>5, <2>5 DEF Outcome
<1> QED
  BY <1>2, <1>4, <1>5

(* A remove of lock_ins takes the value of the place it has blocked.        *)
LEMMA OutcomeBlocks ==
  ASSUME IndInv, AnswersInv, Next, NEW p \in Threads, Block(p) \/ Take(p) \/ Free(p)
  PROVE  Outcome(p)'
<1>0. ~Return(p)
  BY DEF Return, Block, Take, Free
<1>1. /\ TypeOK /\ Outcome(p) /\ variant' = variant
      /\ pc'[p] # "idle" /\ call' = call /\ AbsMap'[call'[p].key] \in seen'[p]
  BY <1>0, GoesOn DEF Work, clht_remove
<1>2. call[p].op = "remove"
  BY <1>1 DEF Block, Take, Free, Outcome
<1>3. CASE Block(p)
  <2>1. pc'[p] \in {"take", "done"} /\ ret' = ret /\ ret[p] = None
    BY <1>1, <1>3 DEF Block, Goto, TypeOK, Outcome, locals
  <2> QED
    BY <1>1, <1>2, <2>1 DEF Outcome
<1>4. CASE Take(p)
  <2>1. pc'[p] = "free"
    BY <1>1, <1>4 DEF Take, Goto, TypeOK
  <2> QED
    BY <1>1, <1>2, <2>1 DEF Outcome
<1>5. CASE Free(p)
  <2>1. pc'[p] = "done"
    BY <1>1, <1>5 DEF Free, Goto, TypeOK
  <2> QED
    BY <1>1, <1>2, <2>1 DEF Outcome
<1> QED
  BY <1>3, <1>4, <1>5

(* What calls have done so far stays true.                                  *)
LEMMA OutcomeStep ==
  ASSUME IndInv, AnswersInv, Next
  PROVE  \A q \in Threads : Outcome(q)'
<1>1. PICK p \in Threads : Invoke(p) \/ Work(p)
  BY DEF Next
<1>2. Outcome(p)'
  BY <1>1, OutcomeCalls, OutcomeLooks, OutcomeLocks, OutcomeStores, OutcomeBlocks DEF Work, clht_remove
<1> QED
  BY <1>1, <1>2, OutcomeStays

-----------------------------------------------------------------------------
(* The search without the lock.  Unless entries move, a key that is there   *)
(* before and after a step stays at its place.                              *)
LEMMA PlaceStays ==
  ASSUME IndInv, IndInv', AnswersInv, AllWrites', Next, NEW p \in Threads, Invoke(p) \/ Work(p),
         variant # "packed", NEW k \in Keys, AbsMap[k] # None, AbsMap'[k] # None
  PROVE  Holding(k)' = Holding(k)
<1>1. AllWrites /\ variant' = variant /\ Blocks(p) /\ Looking(p)
  BY DEF AnswersInv, AllWrites, Next
<1>2. ~(Binds(p) /\ k = call[p].key) /\ ~(Unbinds(p) /\ k = call[p].key)
  BY <1>1, AbsStep
<1>3. Shifts(p, k)
  BY <1>1, <1>2, KeyMoves
<1> QED
  BY <1>3 DEF Shifts, Held

(* Its value changes only if it had none yet.                               *)
LEMMA ValueShifts ==
  ASSUME IndInv, AnswersInv, NEW p \in Threads, Invoke(p) \/ Work(p), variant # "packed",
         NEW pl \in Places, ValIn(pl)' # ValIn(pl)
  PROVE  /\ Pending(p) /\ ValIn(pl)' = call[p].val
         /\ \A k \in Keys : pl \in Holding(k) => variant = "lb" /\ ValIn(pl) = Junk
<1>1. Store(p) /\ Head(stores[p]) = "val" /\ pl = empty[p] /\ ValIn(pl)' = call[p].val /\ Pending(p)
  BY ValueFrom
<1>2. pc[p] = "store" /\ call[p].op = "put" /\ Writes(p)
  BY <1>1, StoreOfPut DEF Store, AnswersInv
<1>3. ASSUME NEW k \in Keys, pl \in Holding(k) PROVE variant = "lb" /\ ValIn(pl) = Junk
  <2>1. KeyTo(p) # None
    BY <1>1, <1>3, KeysAssumption DEF Holding, KeyTo, None
  <2>2. stores[p] = <<"val">>
    BY <1>2, <2>1 DEF Writes
  <2> QED
    BY <1>1, <1>2, <2>2, Kinds DEF Writes, ValTo, ValIn
<1> QED
  BY <1>1, <1>3

(* The others look where they looked.                                       *)
LEMMA LinkedGrows ==
  ASSUME IndInv, NEW p \in Threads, Invoke(p) \/ Work(p), variant' = variant
  PROVE  linked \in Nat /\ linked' \in Nat /\ linked <= linked'
<1>1. linked \in Nat
  BY Cursor DEF IndInv
<1>2. linked' = linked \/ linked' = linked + 1
  <2>1. CASE Store(p)
    BY <2>1, StoreEffect DEF StoreAt
  <2>2. CASE ~Store(p)
    BY <2>2, ShrinkStep DEF Shrinks
  <2> QED
    BY <2>1, <2>2
<1> QED
  BY <1>1, <1>2

(* The steps of another thread leave what a search knows.                   *)
LEMMA LookingStays ==
  ASSUME IndInv, IndInv', AnswersInv, AllWrites', Next, NEW p \in Threads, Invoke(p) \/ Work(p),
         NEW q \in Threads, q # p
  PROVE  Looking(q)'
<1>1. /\ TypeOK /\ Phase(q) /\ Outcome(q) /\ Looking(q) /\ variant' = variant /\ Stored
      /\ FreshValues
  <2>1. AllWrites
    BY DEF AnswersInv, AllWrites
  <2> QED
    BY <2>1, StoredIs DEF IndInv, AnswersInv, Next
<1>2. /\ pc'[q] = pc[q] /\ call'[q] = call[q] /\ b'[q] = b[q] /\ j'[q] = j[q] /\ found'[q] = found[q]
  BY <1>1, OthersStay, OthersKeep
<1>3. b[q] <= linked' /\ b[q] \in Nat
  <2>1. b[q] <= linked /\ b[q] \in Nat /\ linked \in Nat /\ linked' \in Nat /\ linked <= linked'
    BY <1>1, <1>2, Cursor, LinkedGrows DEF Looking
  <2> QED
    BY <2>1
<1>4. CASE variant = "packed" \/ pc[q] \notin {"look", "key", "again", "block"}
  BY <1>1, <1>2, <1>3, <1>4 DEF Looking
<1>5. CASE variant # "packed" /\ pc[q] \in {"look", "key", "again", "block"}
  <2>1. call[q].key \in Keys /\ b[q] \in Buckets /\ j[q] \in Slots
    BY <1>1, <1>5, CallTypes DEF Phase, TypeOK
  <2>2. PICK k \in Keys, pl \in Places : k = call[q].key /\ pl = <<b[q], j[q]>>
    BY <2>1, Bounds
  <2>3. /\ KeyIn(pl) = KeyAt(q) /\ KeyIn(pl)' = KeyAt(q)' /\ ValIn(pl) = ValAt(q)
        /\ ValIn(pl)' = ValAt(q)'
    BY <1>2, <2>2 DEF KeyIn, KeyAt, ValIn, ValAt
  <2>4. Used(pl[1], pl[2])' /\ Used(pl[1], pl[2])
    BY <1>1, <1>3, <1>5, <2>2 DEF Used, Looking
  <2>5. /\ pl \in Holding(k) <=> KeyIn(pl) = k
        /\ pl \in Holding(k)' <=> KeyIn(pl)' = k
    BY <2>4 DEF Holding, KeyIn
  <2>6. seen'[q] = seen[q] \cup {AbsMap'[k]}
    <3>1. pc[q] # "idle"
      BY <1>5
    <3> QED
      BY <2>2, <3>1, SeenStep
  <2>7. ASSUME None \notin seen'[q]
        PROVE  None \notin seen[q] /\ Holding(k)' = Holding(k)
    <3>1. None \notin seen[q] /\ AbsMap'[k] # None
      BY <2>6, <2>7
    <3>2. AbsMap[k] \in seen[q]
      BY <1>1, <1>5, <2>2 DEF Outcome
    <3> QED
      BY <1>5, <3>1, <3>2, PlaceStays
  <2>8. Misread(q)' <=> Misread(q)
    BY <1>1, <1>2 DEF Misread
  <2>9. ASSUME None \notin seen'[q], pc[q] \in {"look", "key"} PROVE Ahead(q)'
    <3>1. Ahead(q) /\ Holding(k)' = Holding(k)
      BY <1>1, <1>5, <2>7, <2>9 DEF Looking
    <3>2. PICK x \in Holding(k) : x[1] > b[q] \/ (x[1] = b[q] /\ x[2] >= j[q])
      BY <2>2, <3>1 DEF Ahead
    <3>3. Holding(call[q].key)' = Holding(k)'
      BY <1>2, <2>2 DEF Holding
    <3> QED
      BY <1>2, <3>1, <3>2, <3>3 DEF Ahead
  <2>10. ASSUME None \notin seen'[q], KeyAt(q)' = k, ValAt(q)' # found[q]
         PROVE  KeyAt(q) = k /\ (ValAt(q) # found[q] \/ Misread(q))
    <3>1. pl \in Holding(k)
      BY <2>3, <2>5, <2>7, <2>10
    <3>2. CASE ValIn(pl)' = ValIn(pl)
      BY <2>3, <2>5, <2>10, <3>1, <3>2
    <3>3. CASE ValIn(pl)' # ValIn(pl)
      <4>1. variant = "lb" /\ ValIn(pl) = Junk
        BY <1>5, <3>1, <3>3, ValueShifts
      <4> QED
        BY <2>3, <2>5, <3>1, <4>1 DEF Misread
    <3> QED
      BY <3>2, <3>3
  <2>11. ASSUME None \notin seen'[q], KeyAt(q)' # k PROVE KeyAt(q) # k
    BY <2>3, <2>5, <2>7, <2>11
  <2>12. ASSUME ValAt(q)' = found[q] PROVE ValAt(q) = found[q]
    <3>1. CASE ValIn(pl)' = ValIn(pl)
      BY <2>3, <2>12, <3>1
    <3>2. CASE ValIn(pl)' # ValIn(pl)
      <4>1. Pending(p) /\ found[q] = call[p].val
        BY <1>5, <2>3, <2>12, <3>2, ValueShifts
      <4> QED
        BY <1>1, <4>1 DEF FreshValues
    <3> QED
      BY <3>1, <3>2
  <2>13. CASE pc[q] = "look"
    BY <1>1, <1>2, <1>3, <2>9, <2>13 DEF Looking
  <2>14. CASE pc[q] = "key"
    <3>1. ASSUME None \notin seen'[q], KeyAt(q)' = k, ValAt(q)' # found[q] PROVE Misread(q)
      BY <1>1, <1>5, <2>2, <2>7, <2>10, <2>14, <3>1 DEF Looking
    <3> QED
      BY <1>1, <1>2, <1>3, <2>2, <2>8, <2>9, <2>14, <3>1 DEF Looking
  <2>15. CASE pc[q] = "again"
    <3>1. ASSUME None \notin seen'[q], KeyAt(q)' # k \/ ValAt(q)' # found[q] PROVE Misread(q)
      <4>1. CASE KeyAt(q)' # k
        BY <1>1, <1>5, <2>2, <2>7, <2>11, <2>15, <3>1, <4>1 DEF Looking
      <4>2. CASE KeyAt(q)' = k
        BY <1>1, <1>5, <2>2, <2>7, <2>10, <2>15, <3>1, <4>2 DEF Looking
      <4> QED
        BY <4>1, <4>2
    <3>2. ASSUME ValAt(q)' = found[q] PROVE found[q] \in seen'[q] \/ Misread(q)
      BY <1>1, <1>5, <2>6, <2>12, <2>15, <3>2 DEF Looking
    <3> QED
      BY <1>1, <1>2, <1>3, <2>2, <2>8, <2>15, <3>1, <3>2 DEF Looking
  <2>16. CASE pc[q] = "block"
    <3>1. ASSUME None \notin seen'[q], KeyAt(q)' # k PROVE FALSE
      BY <1>1, <1>5, <2>2, <2>7, <2>11, <2>16, <3>1 DEF Looking
    <3> QED
      BY <1>1, <1>2, <1>3, <2>2, <2>16, <3>1 DEF Looking
  <2> QED
    BY <1>5, <2>13, <2>14, <2>15, <2>16
<1> QED
  BY <1>4, <1>5

(* A thread stays within the chain, and starts at its first place.          *)
LEMMA CursorStep ==
  ASSUME TypeOK, NEW p \in Threads, Invoke(p) \/ Work(p), Looking(p)
  PROVE  /\ b'[p] \in {b[p], 1} \/ (b'[p] = b[p] + 1 /\ b[p] < linked)
         /\ pc'[p] = "idle" => b'[p] = 1 /\ j'[p] = 1
<1> USE DEF At, Goto, TypeOK
<1>1. CASE Invoke(p) \/ Return(p)
  BY <1>1 DEF Invoke, Return, Begin, locals
<1>2. CASE clht_get(p)
  BY <1>2 DEF clht_get, LookVal, LookAgain
<1>3. CASE bucket_exists(p)
  <2>1. CASE ReadLast(p)
    BY <2>1 DEF ReadLast, Missing
  <2>2. CASE LookKey(p)
    <3>1. CASE KeyAt(p) = call[p].key
      BY <2>2, <3>1 DEF LookKey, Found
    <3>2. CASE KeyAt(p) # call[p].key
      <4>1. Advance(p)
        BY <2>2, <3>2 DEF LookKey
      <4> QED
        BY <4>1 DEF Advance, Missing
    <3> QED
      BY <3>1, <3>2
  <2> QED
    BY <1>3, <2>1, <2>2 DEF bucket_exists
<1>4. CASE Lock(p) \/ Unlock(p) \/ Store(p)
  BY <1>4 DEF Lock, Unlock, Store, locals
<1>5. CASE clht_put(p) \/ clht_remove(p)
  <2>1. b'[p] = b[p] \/ (b'[p] = b[p] + 1 /\ b[p] < linked)
    BY <1>5 DEF clht_put, SearchPut, SearchOn, SearchEnds, clht_remove, SearchRemove, Block,
       Take, Free, locals
  <2>2. pc'[p] # "idle"
    BY <1>5 DEF clht_put, SearchPut, SearchOn, SearchEnds, clht_remove, SearchRemove, Block,
       Take, Free
  <2> QED
    BY <2>1, <2>2
<1> QED
  BY <1>1, <1>2, <1>3, <1>4, <1>5 DEF Work

(* A call that begins has its key ahead, if it is there.                    *)
LEMMA LookingBegins ==
  ASSUME IndInv, IndInv', AnswersInv, Stored', Next, NEW p \in Threads, Invoke(p),
         variant # "packed"
  PROVE  None \in seen'[p] \/ Ahead(p)'
<1>1. TypeOK /\ Looking(p)
  BY DEF IndInv, AnswersInv
<1>2. /\ pc[p] = "idle" /\ call'[p] \in Calls /\ call'[p].key \in Keys
      /\ b'[p] = b[p] /\ j'[p] = j[p] /\ seen'[p] = {AbsMap'[call'[p].key]}
  BY <1>1, InvokeCall, CallTypes, SeenStep DEF locals
<1>3. PICK k \in Keys : k = call'[p].key
  BY <1>2
<1>4. CASE AbsMap'[k] = None
  BY <1>2, <1>3, <1>4
<1>5. CASE AbsMap'[k] # None
  <2>1. Holding(k)' # {}
    BY <1>5 DEF Stored
  <2>2. PICK pl \in Places : pl \in Holding(k)'
    BY <2>1 DEF Holding
  <2>3. pl[1] \in Nat /\ pl[2] \in Nat /\ pl[1] >= 1 /\ pl[2] >= 1
    BY Bounds, SizesAssumption DEF Buckets, Slots
  <2>4. b'[p] = 1 /\ j'[p] = 1
    BY <1>1, <1>2 DEF Looking
  <2>5. pl[1] > b'[p] \/ (pl[1] = b'[p] /\ pl[2] >= j'[p])
    BY <2>3, <2>4
  <2>6. pl \in Holding(call[p].key)'
    BY <1>3, <2>2 DEF Holding
  <2> QED
    BY <2>5, <2>6 DEF Ahead
<1> QED
  BY <1>4, <1>5

(* A place without the key is passed.                                       *)
LEMMA LookingOn ==
  ASSUME IndInv, AnswersInv, Next, NEW p \in Threads, LookKey(p), KeyAt(p) # call[p].key,
         variant # "packed"
  PROVE  /\ pc'[p] = "look" => None \in seen'[p] \/ Ahead(p)'
         /\ pc'[p] # "look" => None \in seen[p]
         /\ pc'[p] \in {"look", "lock", "done"}
<1>1. TypeOK /\ Phase(p) /\ Looking(p) /\ pc[p] \in {"look", "key"} /\ variant' = variant
  BY DEF IndInv, AnswersInv, LookKey, Next
<1>2. /\ Advance(p) /\ UNCHANGED <<table, call>> /\ j[p] \in Slots
      /\ call[p].key \in Keys /\ seen[p] \subseteq seen'[p]
  <2>1. ~Return(p) /\ Work(p)
    BY DEF Return, LookKey, Work, bucket_exists
  <2> QED
    BY <1>1, <2>1, GoesOn DEF LookKey, Phase
<1>3. None \in seen[p] \/ Ahead(p)
  BY <1>1 DEF Looking
<1>4. /\ b[p] \in Nat /\ j[p] \in Nat /\ ENTRIES_PER_BUCKET \in Nat /\ j[p] <= ENTRIES_PER_BUCKET
      /\ b[p] <= linked /\ linked \in Nat
  BY <1>1, <1>2, Cursor, SizesAssumption DEF Slots, Looking
<1>5. \/ /\ j[p] < ENTRIES_PER_BUCKET /\ b'[p] = b[p] /\ j'[p] = j[p] + 1 /\ pc'[p] = "look"
      \/ /\ j[p] = ENTRIES_PER_BUCKET /\ b[p] < linked /\ b'[p] = b[p] + 1 /\ j'[p] = 1
         /\ pc'[p] = "look"
      \/ /\ j[p] = ENTRIES_PER_BUCKET /\ b[p] = linked /\ pc'[p] \in {"lock", "done"}
  BY <1>1, <1>2, <1>4 DEF Advance, Missing, At, Goto, TypeOK
<1>6. ASSUME NEW pl \in Holding(call[p].key), pl[1] > b[p] \/ (pl[1] = b[p] /\ pl[2] >= j[p])
      PROVE  pc'[p] = "look" /\ (pl[1] > b'[p] \/ (pl[1] = b'[p] /\ pl[2] >= j'[p]))
  <2>1. /\ pl[1] \in Nat /\ pl[2] \in Nat /\ pl[1] <= linked /\ pl[2] <= ENTRIES_PER_BUCKET
        /\ pl[2] >= 1 /\ KeyIn(pl) = call[p].key
    BY <1>1, HeldPlace
  <2>2. ~(pl[1] = b[p] /\ pl[2] = j[p])
    BY <2>1 DEF KeyIn, KeyAt
  <2> QED
    BY <1>4, <1>5, <1>6, <2>1, <2>2
<1>7. Holding(call[p].key)' = Holding(call[p].key)
  BY <1>1, <1>2 DEF Holding, Used, table
<1>8. Ahead(p) => pc'[p] = "look" /\ Ahead(p)'
  <2> SUFFICES ASSUME Ahead(p) PROVE pc'[p] = "look" /\ Ahead(p)'
    OBVIOUS
  <2>1. PICK pl \in Holding(call[p].key) : pl[1] > b[p] \/ (pl[1] = b[p] /\ pl[2] >= j[p])
    BY DEF Ahead
  <2>2. pc'[p] = "look" /\ (pl[1] > b'[p] \/ (pl[1] = b'[p] /\ pl[2] >= j'[p]))
    BY <1>6, <2>1
  <2> QED
    BY <1>7, <2>1, <2>2 DEF Ahead
<1> QED
  BY <1>2, <1>3, <1>5, <1>8

(* A place with the key has its value, unless that is still to be written.  *)
LEMMA LookingFinds ==
  ASSUME IndInv, AnswersInv, NEW p \in Threads, pc[p] \in {"look", "key"}, KeyAt(p) = call[p].key,
         variant # "packed"
  PROVE  /\ AbsMap[call[p].key] \in Vals /\ AbsMap[call[p].key] \in seen[p]
         /\ ValAt(p) = AbsMap[call[p].key] \/ (variant = "lb" /\ ValAt(p) = Junk)
<1>1. TypeOK /\ Phase(p) /\ Looking(p) /\ Outcome(p) /\ Stored
  <2>1. AllWrites
    BY DEF AnswersInv, AllWrites
  <2> QED
    BY <2>1, StoredIs DEF IndInv, AnswersInv
<1>2. b[p] \in Buckets /\ j[p] \in Slots /\ call[p].key \in Keys /\ b[p] <= linked
  BY <1>1, CallTypes DEF Phase, TypeOK, Looking
<1>3. <<b[p], j[p]>> \in Holding(call[p].key)
  BY <1>2, Bounds DEF Holding, Used, KeyAt
<1>4. ValIn(<<b[p], j[p]>>) = ValAt(p)
  BY DEF ValIn, ValAt
<1>5. AbsMap[call[p].key] \in seen[p]
  BY <1>1 DEF Outcome
<1> QED
  BY <1>1, <1>2, <1>3, <1>4, <1>5 DEF Stored

(* A search without the lock goes on.                                       *)
LEMMA LookingHere ==
  ASSUME IndInv, AnswersInv, Next, NEW p \in Threads, clht_get(p) \/ bucket_exists(p),
         variant # "packed"
  PROVE  /\ pc'[p] \in {"look", "key"} => None \in seen'[p] \/ Ahead(p)'
         /\ pc'[p] = "key" => ValAt(p)' = found'[p]
         /\ pc'[p] = "again" =>
              /\ KeyAt(p)' = call'[p].key
              /\ ValAt(p)' # found'[p] => None \in seen'[p] \/ Misread(p)'
              /\ ValAt(p)' = found'[p] => found'[p] \in seen'[p] \/ Misread(p)'
         /\ pc'[p] = "block" => KeyAt(p)' = call'[p].key
<1>0. ~Return(p) /\ Work(p)
  BY DEF Return, clht_get, LookVal, LookAgain, bucket_exists, ReadLast, LookKey, Work
<1>1. /\ TypeOK /\ Phase(p) /\ Looking(p) /\ Outcome(p) /\ variant' = variant /\ call' = call
      /\ call[p] \in Calls /\ call[p].key \in Keys /\ seen[p] \subseteq seen'[p]
  BY <1>0, GoesOn DEF AnswersInv
<1>2. call[p].op \in {"put", "get", "remove"}
  BY <1>1 DEF Calls
<1>3. UNCHANGED table
  BY DEF clht_get, LookVal, LookAgain, bucket_exists, ReadLast, LookKey
<1>4. CASE LookVal(p)
  <2>1. /\ pc[p] = "look" /\ pc'[p] = "key" /\ UNCHANGED <<b, j>> /\ found'[p] = ValAt(p)
    BY <1>1, <1>4 DEF LookVal, Goto, TypeOK
  <2>2. ValAt(p)' = found'[p]
    BY <1>3, <2>1 DEF ValAt, table
  <2>3. Ahead(p)' = Ahead(p)
    <3>1. Holding(call[p].key)' = Holding(call[p].key)
      BY <1>1, <1>3 DEF Holding, Used, table
    <3> QED
      BY <2>1, <3>1 DEF Ahead
  <2> QED
    BY <1>1, <2>1, <2>2, <2>3 DEF Looking
<1>5. CASE LookAgain(p)
  <2>1. pc'[p] = "done"
    BY <1>1, <1>5 DEF LookAgain, Goto, TypeOK
  <2> QED
    BY <2>1
<1>6. CASE ReadLast(p)
  BY <1>1, <1>6 DEF ReadLast, Phase
<1>7. CASE LookKey(p) /\ KeyAt(p) # call[p].key
  <2>1. pc'[p] = "look" => None \in seen'[p] \/ Ahead(p)'
    BY <1>7, LookingOn
  <2>2. pc'[p] \in {"look", "lock", "done"}
    BY <1>7, LookingOn
  <2> QED
    BY <2>1, <2>2
<1>8. CASE LookKey(p) /\ KeyAt(p) = call[p].key
  <2>1. /\ Found(p) /\ UNCHANGED <<b, j, found>> /\ pc[p] = (IF call[p].op = "get" THEN "key" ELSE "look")
    BY <1>8 DEF LookKey
  <2>2. /\ pc'[p] \in {"again", "done", "block", "lock"}
        /\ pc'[p] = "again" => call[p].op = "get"
    BY <1>1, <1>2, <2>1 DEF Found, Goto, TypeOK
  <2>3. KeyAt(p)' = call'[p].key /\ ValAt(p)' = ValAt(p) /\ found'[p] = found[p]
    BY <1>1, <1>3, <1>8, <2>1 DEF KeyAt, ValAt, table
  <2>4. Misread(p)' <=> Misread(p)
    BY <1>1, <2>3 DEF Misread
  <2>5. ASSUME pc'[p] = "again", ValAt(p) # found[p] PROVE None \in seen'[p] \/ Misread(p)
    BY <1>1, <1>8, <2>1, <2>2, <2>5 DEF Looking
  <2>6. ASSUME pc'[p] = "again", ValAt(p) = found[p] PROVE found[p] \in seen'[p] \/ Misread(p)
    <3>1. pc[p] \in {"look", "key"}
      BY <2>1
    <3>2. /\ AbsMap[call[p].key] \in seen[p]
          /\ ValAt(p) = AbsMap[call[p].key] \/ (variant = "lb" /\ ValAt(p) = Junk)
      BY <1>8, <3>1, LookingFinds
    <3> QED
      BY <1>1, <2>6, <3>2 DEF Misread
  <2> QED
    BY <2>2, <2>3, <2>4, <2>5, <2>6
<1> QED
  BY <1>4, <1>5, <1>6, <1>7, <1>8 DEF clht_get, bucket_exists

(* What a thread that searches without the lock knows.                      *)
LEMMA LookingSelf ==
  ASSUME IndInv, IndInv', AnswersInv, Stored', Next, NEW p \in Threads, Invoke(p) \/ Work(p)
  PROVE  Looking(p)'
<1>1. TypeOK /\ Looking(p) /\ variant' = variant /\ Outcome(p)
  BY DEF IndInv, AnswersInv, Next
<1>2. b'[p] <= linked' /\ (pc'[p] = "idle" => b'[p] = 1 /\ j'[p] = 1)
  <2>1. /\ b'[p] \in {b[p], 1} \/ (b'[p] = b[p] + 1 /\ b[p] < linked)
        /\ pc'[p] = "idle" => b'[p] = 1 /\ j'[p] = 1
    BY <1>1, CursorStep
  <2>2. linked \in Nat /\ linked' \in Nat /\ linked <= linked' /\ b[p] \in Nat /\ b[p] <= linked
        /\ linked >= 1
    <3>1. linked >= 1 /\ b[p] \in Nat
      BY <1>1, SizesAssumption DEF TypeOK, Buckets
    <3> QED
      BY <1>1, <3>1, LinkedGrows DEF Looking
  <2> QED
    BY <2>1, <2>2
<1>3. CASE variant = "packed" \/ pc'[p] \notin {"look", "key", "again", "block"}
  BY <1>1, <1>2, <1>3 DEF Looking
<1>4. CASE variant # "packed" /\ pc'[p] \in {"look", "key", "again", "block"}
  <2>1. CASE Invoke(p)
    <3>1. pc'[p] = "look"
      BY <1>1, <1>4, <2>1, InvokeCall DEF Begin
    <3>2. None \in seen'[p] \/ Ahead(p)'
      BY <1>4, <2>1, LookingBegins
    <3> QED
      BY <1>2, <3>1, <3>2 DEF Looking
  <2>2. CASE clht_get(p) \/ bucket_exists(p)
    BY <1>2, <1>4, <2>2, LookingHere DEF Looking
  <2>3. CASE Lock(p) \/ Unlock(p) \/ clht_put(p) \/ Store(p) \/ Return(p)
    BY <1>1, <1>4, <2>3 DEF Lock, Unlock, clht_put, SearchPut, SearchOn, SearchEnds, Store,
       Return, Goto, TypeOK
  <2>4. CASE clht_remove(p)
    BY <1>1, <1>4, <2>4 DEF clht_remove, SearchRemove, Block, Take, Free, Goto, TypeOK
  <2> QED
    BY <2>1, <2>2, <2>3, <2>4 DEF Work
<1> QED
  BY <1>3, <1>4

(* What the searches know stays so.                                         *)
LEMMA LookingStep ==
  ASSUME IndInv, IndInv', AnswersInv, AllWrites', Stored', Next
  PROVE  \A q \in Threads : Looking(q)'
<1>1. PICK p \in Threads : Invoke(p) \/ Work(p)
  BY DEF Next
<1> QED
  BY <1>1, LookingSelf, LookingStays

-----------------------------------------------------------------------------
(* What the answers rest on holds in every state.  It holds initially.      *)
LEMMA AnswersInit == Init => AnswersInv
<1> SUFFICES ASSUME Init PROVE AnswersInv
  OBVIOUS
<1>0. /\ linked = 1 /\ puts = 0 /\ MaxPuts \in Nat
      /\ \A p \in Threads : /\ pc[p] = "idle" /\ call[p] = Idle /\ seen[p] = {} /\ ret[p] = None
                            /\ stores[p] = << >> /\ b[p] = 1 /\ j[p] = 1 /\ found[p] = None
  BY SizesAssumption DEF Init
<1>1. ASSUME NEW k \in Keys PROVE Holding(k) = {}
  <2>1. k # None
    BY KeysAssumption DEF None
  <2>2. \A pl \in Places : key[pl[1]][pl[2]] = None
    BY Bounds DEF Init
  <2> QED
    BY <2>1, <2>2 DEF Holding
<1>2. Idle.op = "idle"
  BY DEF Idle
<1>3. seen \in [Threads -> SUBSET (Vals \cup {None})]
  BY DEF Init
<1>4. FreshValues
  <2>1. \A pl \in Places : val[pl[1]][pl[2]] \in 0..puts \cup {Junk}
    BY <1>0, Bounds DEF Init, None
  <2>2. ASSUME NEW p \in Threads
        PROVE  found[p] \in 0..puts \cup {Junk} /\ call[p].op # "put" /\ ~Pending(p)
    <3>1. found[p] = 0 /\ call[p].op = "idle"
      BY <1>0, <1>2 DEF None
    <3> QED
      BY <1>0, <3>1 DEF Pending
  <2>3. \A x \in (linked + 1)..MaxBuckets, y \in Slots : val[x][y] = Junk
    <3>1. ASSUME NEW x \in (linked + 1)..MaxBuckets, NEW y \in Slots PROVE val[x][y] = Junk
      <4>1. x \in Buckets /\ x # 1
        BY <1>0, SizesAssumption DEF Buckets
      <4> QED
        BY <4>1 DEF Init
    <3> QED
      BY <3>1
  <2> QED
    BY <2>1, <2>2, <2>3 DEF FreshValues
<1>5. HeldValues
  BY <1>1 DEF HeldValues
<1>6. ASSUME NEW p \in Threads PROVE Outcome(p) /\ Writes(p) /\ Blocks(p) /\ Looking(p)
  BY <1>0, <1>1, <1>2 DEF Outcome, Writes, Blocks, Looking
<1> QED
  BY <1>3, <1>4, <1>5, <1>6 DEF AnswersInv

(* Every step keeps it.                                                     *)
LEMMA AnswersStep ==
  ASSUME IndInv, IndInv', AnswersInv, Next
  PROVE  AnswersInv' /\ AllWrites' /\ Stored'
<1>1. AllWrites'
  BY WritesStep
<1>2. FreshValues' /\ HeldValues'
  BY <1>1, FreshStep, HeldStep
<1>3. Stored'
  <2>1. (IndInv /\ AllWrites /\ FreshValues /\ HeldValues => Stored)'
    BY StoredIs, PTL
  <2> QED
    BY <1>1, <1>2, <2>1
<1>4. seen' \in [Threads -> SUBSET (Vals \cup {None})]
  <2>1. PICK p \in Threads : Invoke(p) \/ Work(p)
    BY DEF Next
  <2>2. \A k \in Keys : AbsMap'[k] \in Vals \cup {None}
    BY <1>3 DEF Stored
  <2>3. ASSUME NEW q \in Threads PROVE seen'[q] \subseteq Vals \cup {None}
    <3>1. TypeOK /\ Phase(q) /\ seen[q] \subseteq Vals \cup {None}
      BY DEF IndInv, AnswersInv
    <3>2. pc[q] # "idle" => call[q].key \in Keys
      BY <3>1, CallTypes DEF Phase
    <3>3. CASE q # p
      BY <2>1, <2>2, <3>1, <3>2, <3>3, SeenStep
    <3>4. CASE q = p /\ Invoke(p)
      <4>1. call'[p].key \in Keys
        BY <3>1, <3>4, InvokeCall, CallTypes
      <4>2. PICK k \in Keys : k = call'[p].key
        BY <4>1
      <4> QED
        BY <2>1, <2>2, <3>4, <4>2, SeenStep
    <3>5. CASE q = p /\ Work(p)
      BY <2>1, <2>2, <3>1, <3>2, <3>5, SeenStep
    <3> QED
      BY <2>1, <3>3, <3>4, <3>5
  <2>4. seen' = [q \in Threads |-> seen'[q]]
    BY DEF Next, Watch
  <2> QED
    BY <2>3, <2>4
<1>5. \A q \in Threads : Outcome(q)' /\ Blocks(q)' /\ Looking(q)'
  BY <1>1, <1>3, OutcomeStep, BlocksStep, LookingStep
<1> QED
  BY <1>1, <1>2, <1>3, <1>4, <1>5 DEF AnswersInv, AllWrites

(* A stutter changes nothing of the map.                                    *)
LEMMA MapSame ==
  ASSUME UNCHANGED vars
  PROVE  AbsMap' = AbsMap /\ \A k : Holding(k)' = Holding(k)
BY DEF vars, table, locals, AbsMap, Holding, Used, ValueAt

(* Why the answers are right: a refused put has seen its key bound, a       *)
(* search without the lock has its key ahead of it or has seen it absent,   *)
(* and the value a get reads twice around the key was its value, unless     *)
(* entries move or, in lb, a new bucket is linked before it is written.     *)
THEOREM AnswersInvariance == Spec => []AnswersInv
<1>1. ASSUME IndInv, AnswersInv, UNCHANGED vars PROVE AnswersInv'
  <2> USE <1>1 DEF vars, table, locals
  <2>1. AbsMap' = AbsMap /\ \A k : Holding(k)' = Holding(k)
    BY MapSame
  <2>2. seen' \in [Threads -> SUBSET (Vals \cup {None})]
    BY DEF AnswersInv
  <2>3. FreshValues'
    <3>1. \A q \in Threads : Pending(q)' = Pending(q)
      BY DEF Pending
    <3> QED
      BY <3>1 DEF AnswersInv, FreshValues
  <2>4. HeldValues'
    BY <2>1 DEF AnswersInv, HeldValues
  <2>5. ASSUME NEW p \in Threads PROVE Outcome(p)' /\ Writes(p)' /\ Blocks(p)' /\ Looking(p)'
    <3>1. Outcome(p) /\ Writes(p) /\ Blocks(p) /\ Looking(p)
      BY DEF AnswersInv
    <3>2. Outcome(p)'
      BY <2>1, <3>1 DEF Outcome
    <3>3. Writes(p)'
      <4>1. KeyTo(p)' = KeyTo(p) /\ ValTo(p)' = ValTo(p) /\ LastPlace(p)' = LastPlace(p)
            /\ Holding(call[p].key)' = Holding(call[p].key)
        BY <2>1 DEF KeyTo, ValTo, LastPlace, LastBucket
      <4> QED
        BY <3>1, <4>1 DEF Writes
    <3>4. Blocks(p)'
      BY <3>1 DEF Blocks, KeyAt
    <3>5. Looking(p)'
      <4>1. Ahead(p)' = Ahead(p) /\ Misread(p)' = Misread(p) /\ KeyAt(p)' = KeyAt(p)
            /\ ValAt(p)' = ValAt(p)
        BY <2>1 DEF Ahead, Misread, KeyAt, ValAt
      <4> QED
        BY <3>1, <4>1 DEF Looking
    <3> QED
      BY <3>2, <3>3, <3>4, <3>5
  <2> QED
    BY <2>2, <2>3, <2>4, <2>5 DEF AnswersInv
<1>2. IndInv /\ AnswersInv /\ [Next]_vars => AnswersInv'
  BY <1>1, InvStep, AnswersStep
<1> QED
  BY <1>2, AnswersInit, Invariance, PTL DEF Spec

-----------------------------------------------------------------------------
(* The refinement of the atomic map: its variables, as named functions.     *)
StageMap == [p \in Threads |-> Stage(p)]
ResMap   == [p \in Threads |-> Result(p)]

(* The steps that change the map.                                           *)
Applies(p) == Binds(p) \/ Unbinds(p)

(* A step of p changes what the map knows of p only.                        *)
LEMMA StageSteps ==
  ASSUME IndInv, AnswersInv, Next, NEW p \in Threads, Invoke(p) \/ Work(p)
  PROVE  /\ StageMap' = [StageMap EXCEPT ![p] = Stage(p)']
         /\ ResMap' = [ResMap EXCEPT ![p] = Result(p)']
<1>1. StageMap'[p] = Stage(p)' /\ ResMap'[p] = Result(p)'
  BY DEF StageMap, ResMap
<1>2. ASSUME NEW q \in Threads, q # p
      PROVE  StageMap'[q] = StageMap[q] /\ ResMap'[q] = ResMap[q]
  <2>1. TypeOK /\ variant' = variant /\ Writes(p) /\ Blocks(p) /\ Blocks(q) /\ Outcome(p)
    BY DEF IndInv, AnswersInv, Next
  <2>2. /\ pc'[q] = pc[q] /\ call'[q] = call[q] /\ stores'[q] = stores[q] /\ ret'[q] = ret[q]
    BY <1>2, <2>1, OthersStay, OthersKeep
  <2>3. Applied(q)' = Applied(q)
    BY <2>1, <2>2 DEF Applied
  <2>4. pc[q] = "take" => ValAt(q)' = ValAt(q)
    BY <1>2, <2>1, BlockedStays
  <2>5. Stage(q)' = Stage(q)
    BY <2>2, <2>3 DEF Stage
  <2>6. Result(q)' = Result(q)
    BY <2>2, <2>3, <2>4 DEF Result
  <2> QED
    BY <2>5, <2>6 DEF StageMap, ResMap
<1>3. /\ StageMap = [q \in Threads |-> StageMap[q]] /\ StageMap' = [q \in Threads |-> StageMap'[q]]
      /\ ResMap = [q \in Threads |-> ResMap[q]] /\ ResMap' = [q \in Threads |-> ResMap'[q]]
  BY DEF StageMap, ResMap
<1> HIDE DEF StageMap, ResMap
<1> QED
  BY <1>1, <1>2, <1>3

(* The map changes with the steps that apply a call, at its key.            *)
LEMMA MapStep ==
  ASSUME IndInv, IndInv', AnswersInv, Next, NEW p \in Threads, Invoke(p) \/ Work(p)
  PROVE  /\ Binds(p) /\ call[p].key \in Keys =>
              /\ AbsMap[call[p].key] = None
              /\ AbsMap' = [AbsMap EXCEPT ![call[p].key] = call[p].val]
         /\ Unbinds(p) /\ call[p].key \in Keys =>
              /\ AbsMap[call[p].key] # None
              /\ AbsMap' = [AbsMap EXCEPT ![call[p].key] = None]
         /\ ~Applies(p) => AbsMap' = AbsMap
<1>0. /\ AllWrites /\ AllWrites' /\ variant' = variant /\ Blocks(p) /\ Looking(p) /\ Stored
  <2>1. AllWrites
    BY DEF AnswersInv, AllWrites
  <2>2. AllWrites'
    BY WritesStep
  <2> QED
    BY <2>1, <2>2, StoredIs DEF AnswersInv, Next
<1>1. /\ AbsMap = [k \in Keys |-> AbsMap[k]] /\ AbsMap' = [k \in Keys |-> AbsMap'[k]]
  BY DEF AbsMap
<1>2. ASSUME NEW k \in Keys
      PROVE  /\ Binds(p) /\ k = call[p].key => AbsMap[k] = None /\ AbsMap'[k] = call[p].val
             /\ Unbinds(p) /\ k = call[p].key => AbsMap'[k] = None /\ AbsMap[k] # None
             /\ k # call[p].key \/ ~Applies(p) => AbsMap'[k] = AbsMap[k]
  <2>1. /\ Binds(p) /\ k = call[p].key => AbsMap[k] = None /\ AbsMap'[k] = call[p].val
        /\ Unbinds(p) /\ k = call[p].key => AbsMap'[k] = None /\ Holding(k) # {}
        /\ k # call[p].key \/ ~Applies(p) => AbsMap'[k] = AbsMap[k]
    BY <1>0, AbsStep DEF Applies
  <2>2. Holding(k) # {} => AbsMap[k] # None
    BY <1>0 DEF Stored
  <2> QED
    BY <2>1, <2>2
<1> HIDE DEF AbsMap
<1>3. CASE ~Applies(p)
  BY <1>1, <1>2, <1>3 DEF Applies
<1>4. CASE Binds(p)
  BY <1>1, <1>2, <1>4 DEF Applies, Binds, Unbinds, Store, Block
<1>5. CASE Unbinds(p)
  BY <1>1, <1>2, <1>5 DEF Applies, Binds, Unbinds, Store, Block
<1> QED
  BY <1>3, <1>4, <1>5 DEF Applies

(* After its first store a remove does not clear again.                     *)
LEMMA RemoveRests ==
  ASSUME NEW p \in Threads, call[p].op = "remove", stores[p] \in StoresLeft(p)
  PROVE  Tail(stores[p]) = << >> \/ Head(Tail(stores[p])) # "clear"
<1>0. {"clear", "moveval", "movekey", "unlast"} \subseteq StoreNames
  BY DEF StoreNames
<1>1. stores[p] \in Removing \cup {<<"clear">>}
  BY DEF StoresLeft
<1> QED
  BY <1>0, <1>1, Lists DEF Removing

(* The stores of an update: it is applied with one of them.                 *)
LEMMA StoreStage ==
  ASSUME IndInv, AnswersInv, Next, NEW p \in Threads, Store(p)
  PROVE  /\ Applies(p) => /\ Stage(p) = "open" /\ Stage(p)' = "applied"
                          /\ Result(p)' = IF Binds(p) THEN call[p].val ELSE ret[p]
         /\ ~Applies(p) => Stage(p)' = Stage(p) /\ Result(p)' = Result(p)
<1>1. /\ TypeOK /\ Outcome(p) /\ variant' = variant /\ Writes(p) /\ call[p].op \in {"put", "remove"}
      /\ pc[p] = "store" /\ stores'[p] = Tail(stores[p]) /\ stores[p] \in StoresLeft(p)
      /\ pc'[p] = IF Tail(stores[p]) = << >> THEN "unlock" ELSE "store"
      /\ call' = call /\ ~Block(p)
  <2>1. TypeOK /\ Outcome(p) /\ variant' = variant /\ Writes(p) /\ ~Block(p)
    BY DEF IndInv, AnswersInv, Next, Store, Block
  <2> QED
    BY <2>1, StoreEffect, StorePlaces
<1>2. CASE call[p].op = "put"
  <2>1. ~Unbinds(p)
    <3>1. Head(stores[p]) # "clear"
      BY <1>2, StoreOfPut
    <3> QED
      BY <1>1, <3>1 DEF Unbinds
  <2>2. ret'[p] = IF Binds(p) THEN call[p].val ELSE ret[p]
    <3>1. CASE Binds(p)
      BY <1>1, <1>2, <3>1 DEF Binds, Store, TypeOK
    <3>2. CASE ~Binds(p)
      BY <1>1, <1>2, <3>2 DEF Binds, Store
    <3> QED
      BY <3>1, <3>2
  <2>3. Binds(p) => ret[p] = None
    <3>1. Binds(p) => stores[p] # <<"val">>
      BY <1>1, <1>2, PutRests DEF Binds
    <3> QED
      BY <1>1, <1>2, <3>1 DEF Outcome
  <2>4. call[p].val # None
    <3>1. call[p].val \in 1..puts /\ puts \in Nat
      BY <1>1, <1>2, SizesAssumption DEF AnswersInv, FreshValues, TypeOK
    <3> QED
      BY <3>1 DEF None
  <2>5. Applied(p) = (ret[p] # None) /\ Applied(p)' = (ret'[p] # None)
    BY <1>1, <1>2 DEF Applied
  <2> QED
    BY <1>1, <2>1, <2>2, <2>3, <2>4, <2>5 DEF Applies, Stage, Result
<1>3. CASE call[p].op = "remove"
  <2>1. ~Binds(p) /\ (Unbinds(p) <=> Head(stores[p]) = "clear")
    <3>1. Head(stores[p]) # "key" /\ Head(stores[p]) # "last"
      BY <1>3, StoreOfPut
    <3> QED
      BY <1>1, <3>1 DEF Binds, Unbinds
  <2>2. ret' = ret /\ ret[p] # None /\ variant # "lock_ins"
    <3>1. ret[p] \in Vals /\ ret' = ret /\ variant # "lock_ins"
      BY <1>1, <1>3 DEF Outcome, Store
    <3> QED
      BY <3>1, SizesAssumption DEF Vals, None
  <2>3. Applied(p) = (Head(stores[p]) # "clear") /\ Applied(p)'
    BY <1>1, <1>3, <2>2, RemoveRests DEF Applied
  <2> QED
    BY <1>1, <2>1, <2>2, <2>3 DEF Applies, Stage, Result
<1> QED
  BY <1>1, <1>2, <1>3

(* A remove that blocks its key takes the value the key had.                *)
LEMMA BlockStage ==
  ASSUME IndInv, AnswersInv, Next, NEW p \in Threads, Block(p), KeyAt(p) = call[p].key
  PROVE  /\ Stage(p) = "open" /\ Stage(p)' = "applied" /\ call[p].op = "remove"
         /\ Result(p)' = AbsMap[call[p].key] /\ call' = call /\ call[p].key \in Keys
<1>1. /\ TypeOK /\ Phase(p) /\ Outcome(p) /\ variant' = variant /\ Looking(p) /\ Stored
      /\ pc[p] = "block" /\ call' = call
  <2>1. AllWrites
    BY DEF AnswersInv, AllWrites
  <2> QED
    BY <2>1, StoredIs DEF IndInv, AnswersInv, Next, Block
<1>2. /\ call[p].op = "remove" /\ variant = "lock_ins" /\ call[p].key \in Keys
      /\ b[p] \in Buckets /\ j[p] \in Slots /\ b[p] <= linked
  BY <1>1, CallTypes DEF Phase, Outcome, Looking, TypeOK
<1>3. <<b[p], j[p]>> \in Holding(call[p].key)
  BY <1>2, Bounds DEF Holding, Used, KeyAt
<1>4. ValAt(p) = AbsMap[call[p].key]
  BY <1>1, <1>2, <1>3 DEF Stored, ValIn, ValAt
<1>5. pc'[p] = "take" /\ ValAt(p)' = ValAt(p)
  BY <1>1 DEF Block, Goto, TypeOK, ValAt, locals
<1>6. ~Applied(p) /\ Applied(p)'
  BY <1>1, <1>2, <1>5 DEF Applied
<1> QED
  BY <1>1, <1>2, <1>4, <1>5, <1>6 DEF Stage, Result

(* A remove that clears its place had put away the value the key had.       *)
LEMMA ClearTakes ==
  ASSUME IndInv, AnswersInv, NEW p \in Threads, Store(p), Head(stores[p]) = "clear"
  PROVE  call[p].op = "remove" /\ ret[p] = AbsMap[call[p].key]
<1>1. /\ TypeOK /\ Outcome(p) /\ Storing(p) /\ Writes(p) /\ Stored /\ pc[p] = "store"
      /\ empty[p] \in Places /\ call[p].key \in Keys /\ call[p].op \in {"put", "remove"}
  <2>1. AllWrites
    BY DEF AnswersInv, AllWrites
  <2> QED
    BY <2>1, StoredIs, StoreEffect DEF IndInv, AnswersInv
<1>2. call[p].op = "remove"
  BY <1>1, StoreOfPut
<1>3. ret[p] \in Vals /\ KeyTo(p) = call[p].key /\ ValTo(p) = ret[p]
  BY <1>1, <1>2 DEF Outcome, Writes
<1>4. empty[p] \in Holding(call[p].key)
  <2>1. Used(empty[p][1], empty[p][2])
    <3>1. empty[p][1] <= linked
      BY <1>1 DEF Storing
    <3>2. variant = "packed" => empty[p] = <<b[p], j[p]>> /\ j[p] <= last[b[p]]
      BY <1>1, <1>2 DEF Storing
    <3> QED
      BY <3>1, <3>2 DEF Used
  <2> QED
    BY <1>1, <1>3, <2>1 DEF Holding, KeyTo
<1>5. ValIn(empty[p]) # Junk
  <2>1. ret[p] # Junk
    BY <1>3, SizesAssumption DEF Vals, Junk
  <2> QED
    BY <1>3, <2>1 DEF ValIn, ValTo
<1> QED
  BY <1>1, <1>2, <1>3, <1>4, <1>5 DEF Stored, ValIn, ValTo

(* The map watches its calls as the table does.                             *)
LEMMA KVWatch == Watch => KV!Watch
BY DEF Watch, KV!Watch, KV!Idle, Idle, KV!None, None

(* A call opens.                                                            *)
LEMMA InvokeImplements ==
  ASSUME IndInv, IndInv', AnswersInv, Next, NEW p \in Threads, Invoke(p)
  PROVE  KV!KVInvoke(p)
<1>0. TypeOK /\ Outcome(p) /\ variant' = variant
  BY DEF IndInv, AnswersInv, Next
<1>1. PICK c \in Calls : call' = [call EXCEPT ![p] = c]
  BY DEF Invoke
<1>2. /\ pc[p] = "idle" /\ pc'[p] \in {"last", "look"} /\ ret'[p] = None
      /\ call[p].op = "idle"
  BY <1>0, InvokeCall DEF Begin, Outcome, Idle, locals
<1>3. AbsMap' = AbsMap
  <2>1. ~Applies(p)
    BY <1>2 DEF Applies, Binds, Unbinds, Store, Block
  <2> QED
    BY <2>1, MapStep
<1>4. ~Applied(p) /\ ~Applied(p)'
  BY <1>2 DEF Applied
<1>5. Stage(p) = "idle" /\ Stage(p)' = "open" /\ Result(p) = None /\ Result(p)' = None
  BY <1>2, <1>4 DEF Stage, Result
<1>6. /\ StageMap[p] = "idle" /\ StageMap' = [StageMap EXCEPT ![p] = "open"]
      /\ ResMap' = [ResMap EXCEPT ![p] = None] /\ ResMap[p] = None
  BY <1>5, StageSteps DEF StageMap, ResMap
<1>7. ResMap' = ResMap
  BY <1>6 DEF ResMap
<1>8. c \in KV!Calls
  BY DEF Calls, KV!Calls, KV!None, None
<1> QED
  BY <1>1, <1>3, <1>6, <1>7, <1>8 DEF KV!KVInvoke, StageMap, ResMap

(* A call returns.                                                          *)
LEMMA ReturnImplements ==
  ASSUME IndInv, IndInv', AnswersInv, Next, NEW p \in Threads, Return(p)
  PROVE  KV!KVReturn(p)
<1>0. TypeOK /\ Work(p)
  BY DEF IndInv, Work
<1>1. AbsMap' = AbsMap
  <2>1. ~Applies(p)
    BY DEF Return, Applies, Binds, Unbinds, Store, Block
  <2> QED
    BY <1>0, <2>1, MapStep
<1>2. pc[p] = "done" /\ pc'[p] = "idle" /\ call'[p].op = "idle"
  BY <1>0 DEF Return, Goto, TypeOK, Idle
<1>3. Stage(p) = "done" /\ Stage(p)' = "idle" /\ Result(p)' = None
  <2>1. ~Applied(p)'
    BY <1>2 DEF Applied
  <2> QED
    BY <1>2, <2>1 DEF Stage, Result
<1>4. /\ StageMap[p] = "done" /\ StageMap' = [StageMap EXCEPT ![p] = "idle"]
      /\ ResMap' = [ResMap EXCEPT ![p] = None]
  BY <1>0, <1>3, StageSteps DEF StageMap
<1>5. call' = [call EXCEPT ![p] = KV!Idle]
  BY DEF Return, Idle, KV!Idle, KV!None, None
<1> QED
  BY <1>1, <1>4, <1>5 DEF KV!KVReturn, StageMap, ResMap, KV!None, None

(* A put takes effect with its key or with last, a remove when it clears or *)
(* blocks its key.                                                          *)
LEMMA ApplyImplements ==
  ASSUME IndInv, IndInv', AnswersInv, Next, NEW p \in Threads, Applies(p)
  PROVE  KV!KVApply(p)
<1>0. Work(p) /\ call' = call /\ call[p].key \in Keys
  <2>1. CASE Store(p)
    BY <2>1, StoreEffect, StorePlaces DEF Work
  <2>2. CASE Block(p) /\ KeyAt(p) = call[p].key
    BY <2>2, BlockStage DEF Work, clht_remove
  <2> QED
    BY <2>1, <2>2 DEF Applies, Binds, Unbinds
<1>1. ASSUME Stage(p) = "open", Stage(p)' = "applied"
      PROVE  /\ StageMap[p] = "open" /\ StageMap' = [StageMap EXCEPT ![p] = "applied"]
             /\ ResMap' = [ResMap EXCEPT ![p] = Result(p)']
  BY <1>0, <1>1, StageSteps DEF StageMap
<1>2. CASE Binds(p)
  <2>1. /\ Store(p) /\ Stage(p) = "open" /\ Stage(p)' = "applied" /\ Result(p)' = call[p].val
    BY <1>2, StoreStage DEF Applies, Binds
  <2>2. call[p].op = "put"
    BY <1>2, <2>1, StoreOfPut DEF Binds
  <2>3. /\ AbsMap[call[p].key] = None
        /\ AbsMap' = [AbsMap EXCEPT ![call[p].key] = call[p].val]
    BY <1>0, <1>2, MapStep
  <2> QED
    BY <1>0, <1>1, <2>1, <2>2, <2>3 DEF KV!KVApply, StageMap, ResMap, KV!None, None
<1>3. CASE Unbinds(p)
  <2>1. /\ Stage(p) = "open" /\ Stage(p)' = "applied" /\ Result(p)' = AbsMap[call[p].key]
        /\ call[p].op = "remove"
    <3>1. CASE Store(p) /\ Head(stores[p]) = "clear"
      <4>1. ~Binds(p)
        BY <3>1 DEF Binds
      <4> QED
        BY <1>3, <3>1, <4>1, StoreStage, ClearTakes DEF Applies
    <3>2. CASE Block(p) /\ KeyAt(p) = call[p].key
      BY <3>2, BlockStage
    <3> QED
      BY <1>3, <3>1, <3>2 DEF Unbinds
  <2>2. /\ AbsMap[call[p].key] # None
        /\ AbsMap' = [AbsMap EXCEPT ![call[p].key] = None]
    BY <1>0, <1>3, MapStep
  <2> QED
    BY <1>0, <1>1, <2>1, <2>2 DEF KV!KVApply, StageMap, ResMap, KV!None, None
<1> QED
  BY <1>2, <1>3 DEF Applies

(* The other steps leave a call where it is, unless they end it.            *)
LEMMA StageStays ==
  ASSUME IndInv, AnswersInv, Next, NEW p \in Threads, Work(p), ~Return(p), ~Applies(p),
         pc'[p] # "done"
  PROVE  Stage(p)' = Stage(p) /\ Result(p)' = Result(p)
<1> USE DEF Goto
<1>1. /\ TypeOK /\ Phase(p) /\ Outcome(p) /\ variant' = variant /\ call' = call
      /\ pc[p] # "idle" /\ pc'[p] # "idle"
  BY GoesOn
<1>2. ASSUME pc[p] \in {"last", "look", "key", "again", "lock", "search"}, ret' = ret,
             pc'[p] \in {"last", "look", "key", "again", "lock", "search", "block", "unlock", "store"}
      PROVE  Stage(p)' = Stage(p) /\ Result(p)' = Result(p)
  <2>1. ret[p] = None /\ ret'[p] = None
    BY <1>1, <1>2 DEF Outcome
  <2>2. ~Applied(p) /\ ~Applied(p)'
    BY <1>1, <1>2, <2>1 DEF Applied
  <2> QED
    BY <1>1, <1>2, <2>2 DEF Stage, Result
<1>3. CASE clht_get(p)
  <2>1. LookVal(p)
    BY <1>1, <1>3 DEF clht_get, LookAgain, TypeOK
  <2>2. pc[p] = "look" /\ pc'[p] = "key" /\ ret' = ret
    BY <1>1, <2>1 DEF LookVal, TypeOK
  <2> QED
    BY <1>2, <2>2
<1>4. CASE bucket_exists(p)
  <2>1. pc[p] \in {"last", "look", "key"} /\ ret' = ret
    BY <1>4 DEF bucket_exists, ReadLast, LookKey
  <2>2. pc'[p] \in {"last", "look", "again", "block", "lock"}
    BY <1>1, <1>4 DEF bucket_exists, ReadLast, LookKey, Found, Advance, Missing, TypeOK
  <2> QED
    BY <1>2, <2>1, <2>2
<1>5. CASE Lock(p)
  <2>1. pc[p] = "lock" /\ pc'[p] = "search" /\ ret' = ret
    BY <1>1, <1>5 DEF Lock, TypeOK
  <2> QED
    BY <1>2, <2>1
<1>6. CASE Unlock(p) \/ Free(p)
  BY <1>1, <1>6 DEF Unlock, Free, TypeOK
<1>7. CASE clht_put(p)
  <2>1. pc[p] = "search" /\ ret' = ret /\ pc'[p] \in {"search", "unlock", "store"}
    BY <1>1, <1>7 DEF clht_put, SearchPut, SearchOn, SearchEnds, TypeOK
  <2> QED
    BY <1>2, <2>1
<1>8. CASE Store(p)
  BY <1>8, StoreStage
<1>9. CASE SearchRemove(p)
  <2>1. CASE KeyAt(p) # call[p].key
    <3>1. pc[p] = "search" /\ ret' = ret /\ pc' = pc
      BY <1>9, <2>1 DEF SearchRemove
    <3> QED
      BY <1>2, <3>1
  <2>2. CASE KeyAt(p) = call[p].key
    <3>1. /\ pc[p] = "search" /\ call[p].op = "remove" /\ pc'[p] = "store"
          /\ stores'[p] \in {<<"clear", "moveval", "movekey", "unlast">>, <<"clear">>}
      BY <1>1, <1>9, <2>2 DEF SearchRemove, TypeOK
    <3>2. Head(stores'[p]) = "clear"
      BY <3>1
    <3>3. ret[p] = None /\ variant # "lock_ins"
      BY <1>1, <3>1 DEF Outcome
    <3>4. ~Applied(p) /\ ~Applied(p)'
      BY <1>1, <3>1, <3>2, <3>3 DEF Applied
    <3> QED
      BY <3>1, <3>4 DEF Stage, Result
  <2> QED
    BY <2>1, <2>2
<1>10. CASE Block(p)
  BY <1>1, <1>10 DEF Block, TypeOK, Applies, Unbinds
<1>11. CASE Take(p)
  <2>1. /\ pc[p] = "take" /\ pc'[p] = "free" /\ ret'[p] = ValAt(p)
    BY <1>1, <1>11 DEF Take, TypeOK
  <2>2. call[p].op = "remove" /\ variant = "lock_ins"
    BY <1>1, <2>1 DEF Outcome, Phase
  <2>3. Applied(p) /\ Applied(p)'
    BY <1>1, <2>1, <2>2 DEF Applied
  <2> QED
    BY <2>1, <2>3 DEF Stage, Result
<1> QED
  BY <1>3, <1>4, <1>5, <1>6, <1>7, <1>8, <1>9, <1>10, <1>11 DEF Work, clht_remove

(* They are none of the map.                                                *)
LEMMA WayStutters ==
  ASSUME IndInv, IndInv', AnswersInv, Next, NEW p \in Threads, Work(p), ~Return(p), ~Applies(p),
         pc'[p] # "done"
  PROVE  UNCHANGED <<AbsMap, call, StageMap, ResMap, seen>>
<1>1. AbsMap' = AbsMap /\ call' = call
  BY MapStep, CallStays
<1>2. StageMap' = [StageMap EXCEPT ![p] = Stage(p)] /\ ResMap' = [ResMap EXCEPT ![p] = Result(p)]
  BY StageSteps, StageStays
<1>3. StageMap' = StageMap /\ ResMap' = ResMap
  BY <1>2 DEF StageMap, ResMap
<1>4. seen' = seen
  <2>1. ASSUME NEW q \in Threads PROVE seen'[q] = seen[q]
    <3>1. Outcome(q)
      BY DEF AnswersInv
    <3>2. pc[p] # "idle" /\ seen'[p] = seen[p] \cup {AbsMap'[call[p].key]}
      BY SeenStep
    <3>3. q # p => seen'[q] = IF pc[q] = "idle" THEN {} ELSE seen[q] \cup {AbsMap'[call[q].key]}
      BY SeenStep
    <3> QED
      BY <1>1, <3>1, <3>2, <3>3 DEF Outcome
  <2>2. seen \in [Threads -> SUBSET (Vals \cup {None})] /\ seen' = [q \in Threads |-> seen'[q]]
    BY DEF AnswersInv, Next, Watch
  <2> QED
    BY <2>1, <2>2
<1> QED
  BY <1>1, <1>3, <1>4

(* The answer of a search without the lock is right by what the call has    *)
(* seen, except where entries move or a new bucket is not written yet.      *)
LEMMA SearchAnswers ==
  ASSUME IndInv, AnswersInv, Next, NEW p \in Threads, clht_get(p) \/ bucket_exists(p),
         pc'[p] = "done", variant # "packed", ~(call[p].op = "get" /\ Misread(p))
  PROVE  KV!Justified(p, ret'[p])
<1> USE DEF KV!Justified, KV!None, None, Goto
<1>1. TypeOK /\ Phase(p) /\ Looking(p) /\ Outcome(p)
  BY DEF IndInv, AnswersInv
<1>2. CASE LookVal(p)
  BY <1>1, <1>2 DEF LookVal, TypeOK
<1>3. CASE ReadLast(p)
  BY <1>1, <1>3 DEF ReadLast, Phase
<1>4. CASE LookAgain(p)
  <2>1. /\ pc[p] = "again" /\ call[p].op = "get"
        /\ ret'[p] = IF ValAt(p) = found[p] THEN found[p] ELSE None
    BY <1>1, <1>4 DEF LookAgain, Outcome, TypeOK
  <2> QED
    BY <1>1, <2>1 DEF Looking
<1>5. CASE LookKey(p)
  <2>1. /\ pc[p] \in {"look", "key"} /\ ret' = ret /\ ret[p] = None /\ call[p] \in Calls
        /\ call[p].op \in {"put", "get", "remove"}
    BY <1>1, <1>5 DEF LookKey, Phase, Outcome, Calls
  <2>2. CASE KeyAt(p) = call[p].key
    <3>1. call[p].op = "put"
      BY <1>1, <1>5, <2>1, <2>2 DEF LookKey, Found, TypeOK
    <3>2. seen[p] \cap Vals # {}
      BY <2>1, <2>2, LookingFinds
    <3> QED
      BY <2>1, <3>1, <3>2
  <2>3. CASE KeyAt(p) # call[p].key
    <3>1. None \in seen[p]
      BY <1>5, <2>3, LookingOn
    <3>2. call[p].op # "put"
      <4>1. Advance(p)
        BY <1>5, <2>3 DEF LookKey
      <4> QED
        BY <1>1, <4>1 DEF Advance, Missing, TypeOK
    <3> QED
      BY <2>1, <3>1, <3>2
  <2> QED
    BY <2>2, <2>3
<1> QED
  BY <1>2, <1>3, <1>4, <1>5 DEF clht_get, bucket_exists

(* A call is done without a change.                                         *)
LEMMA AnswerImplements ==
  ASSUME IndInv, IndInv', AnswersInv, Next, NEW p \in Threads, Work(p), ~Return(p), ~Applies(p),
         pc'[p] = "done"
  PROVE  KV!KVAnswer(p) \/ MayBeWrong(p)
<1> USE DEF Goto
<1>1. /\ TypeOK /\ Phase(p) /\ Outcome(p) /\ Looking(p) /\ call' = call
      /\ pc[p] # "idle" /\ AbsMap' = AbsMap
  BY GoesOn, MapStep DEF AnswersInv
<1>2. Stage(p)' = "done" /\ Result(p)' = ret'[p]
  BY DEF Stage, Result
<1>3. /\ StageMap[p] = Stage(p) /\ ResMap[p] = Result(p)
      /\ StageMap' = [StageMap EXCEPT ![p] = "done"]
      /\ ResMap' = [ResMap EXCEPT ![p] = ret'[p]]
  BY <1>2, StageSteps DEF StageMap, ResMap
<1>4. ASSUME Stage(p) = "open", KV!Justified(p, ret'[p])
      PROVE  KV!KVAnswer(p)
  <2>1. ret'[p] \in Vals \cup {KV!None}
    BY <1>4 DEF KV!Justified, KV!None, None, AnswersInv
  <2> QED
    BY <1>1, <1>3, <1>4, <2>1 DEF KV!KVAnswer, StageMap, ResMap
<1>5. ASSUME Stage(p) = "applied", Result(p) = ret'[p]
      PROVE  KV!KVAnswer(p)
  <2>1. ResMap' = ResMap
    BY <1>3, <1>5 DEF ResMap
  <2> QED
    BY <1>1, <1>3, <1>5, <2>1 DEF KV!KVAnswer, StageMap, ResMap
<1>6. CASE clht_get(p) \/ bucket_exists(p)
  <2>1. /\ pc[p] \in {"last", "look", "key", "again"} /\ ret[p] = None
        /\ pc[p] = "again" => call[p].op = "get"
    BY <1>1, <1>6 DEF clht_get, LookVal, LookAgain, bucket_exists, ReadLast, LookKey, Outcome
  <2>2. Stage(p) = "open"
    <3>1. ~Applied(p)
      BY <2>1 DEF Applied
    <3> QED
      BY <2>1, <3>1 DEF Stage
  <2>3. CASE variant = "packed" \/ (call[p].op = "get" /\ Misread(p))
    BY <1>1, <2>1, <2>3 DEF MayBeWrong, Misread
  <2>4. CASE variant # "packed" /\ ~(call[p].op = "get" /\ Misread(p))
    BY <1>4, <1>6, <2>2, <2>4, SearchAnswers
  <2> QED
    BY <2>3, <2>4
<1>7. CASE Lock(p) \/ clht_put(p) \/ Store(p) \/ SearchRemove(p) \/ Take(p)
  BY <1>1, <1>7 DEF Lock, clht_put, SearchPut, SearchOn, SearchEnds, Store, SearchRemove, Take, TypeOK
<1>8. CASE Unlock(p)
  <2>1. /\ pc[p] = "unlock" /\ ret' = ret /\ call[p] \in Calls /\ call[p].op \in {"put", "remove"}
        /\ call[p].op = "remove" => variant # "lock_ins"
    BY <1>1, <1>8 DEF Unlock, Phase, Outcome, Calls, locals
  <2>2. CASE ret[p] # None
    <3>1. Applied(p)
      BY <2>1, <2>2 DEF Applied
    <3> QED
      BY <1>5, <2>1, <3>1 DEF Stage, Result
  <2>3. CASE ret[p] = None
    <3>1. Stage(p) = "open"
      <4>1. ~Applied(p)
        BY <2>1, <2>3 DEF Applied
      <4> QED
        BY <2>1, <4>1 DEF Stage
    <3>2. KV!Justified(p, ret'[p])
      BY <1>1, <2>1, <2>3 DEF Outcome, KV!Justified, KV!None, None
    <3> QED
      BY <1>4, <3>1, <3>2
  <2> QED
    BY <2>2, <2>3
<1>9. CASE Block(p)
  <2>1. /\ pc[p] = "block" /\ ret' = ret /\ ret[p] = None /\ call[p].op = "remove"
        /\ variant = "lock_ins" /\ KeyAt(p) # call[p].key
    BY <1>1, <1>9 DEF Block, Phase, Outcome, Applies, Unbinds, locals
  <2>2. None \in seen[p]
    BY <1>1, <2>1 DEF Looking
  <2>3. Stage(p) = "open"
    <3>1. ~Applied(p)
      BY <2>1 DEF Applied
    <3> QED
      BY <2>1, <3>1 DEF Stage
  <2> QED
    BY <1>4, <2>1, <2>2, <2>3 DEF KV!Justified, KV!None, None
<1>10. CASE Free(p)
  <2>1. pc[p] = "free" /\ ret' = ret /\ call[p].op = "remove" /\ variant = "lock_ins"
    BY <1>1, <1>10 DEF Free, Phase, Outcome, locals
  <2>2. Applied(p)
    BY <2>1 DEF Applied
  <2> QED
    BY <1>5, <2>1, <2>2 DEF Stage, Result
<1> QED
  BY <1>6, <1>7, <1>8, <1>9, <1>10 DEF Work, clht_remove

(* The updates of the three tables are those of one atomic map, and so is   *)
(* every answer of lock_ins, every answer of lb but that of a get that      *)
(* reads a new bucket before its entry is written, and every answer of      *)
(* packed given under the lock.                                             *)
THEOREM IsAtomicMap == Spec => UpdatesLinearizable
<1>1. Init => KV!KVInit
  <2> SUFFICES ASSUME Init PROVE KV!KVInit
    OBVIOUS
  <2>1. AbsMap = [k \in Keys |-> KV!None]
    <3>1. ASSUME NEW k \in Keys PROVE Holding(k) = {}
      <4>1. k # None
        BY KeysAssumption DEF None
      <4>2. \A pl \in Places : key[pl[1]][pl[2]] = None
        BY Bounds DEF Init
      <4> QED
        BY <4>1, <4>2 DEF Holding
    <3> QED
      BY <3>1 DEF AbsMap, KV!None, None
  <2>2. ASSUME NEW p \in Threads PROVE Stage(p) = "idle" /\ Result(p) = None
    <3>1. pc[p] = "idle" /\ call[p].op = "idle"
      BY DEF Init, Idle
    <3>2. ~Applied(p)
      BY <3>1 DEF Applied
    <3> QED
      BY <3>1, <3>2 DEF Stage, Result
  <2>3. /\ StageMap = [p \in Threads |-> "idle"]
        /\ ResMap = [p \in Threads |-> KV!None]
    BY <2>2 DEF StageMap, ResMap, KV!None, None
  <2>4. /\ call = [p \in Threads |-> KV!Idle]
        /\ seen = [p \in Threads |-> {}]
    BY DEF Init, KV!Idle, KV!None, Idle, None
  <2> QED
    BY <2>1, <2>3, <2>4 DEF KV!KVInit, StageMap, ResMap
<1>2. ASSUME IndInv, IndInv', AnswersInv, [Next]_vars
      PROVE  [KV!KVNext \/ UNCHANGED KV!kvVars \/ \E p \in Threads : MayBeWrong(p)]_vars
  <2>1. CASE Next
    <3>1. PICK p \in Threads : Invoke(p) \/ Work(p)
      BY <2>1 DEF Next
    <3>2. Watch /\ KV!Watch
      BY <2>1, KVWatch DEF Next
    <3>3. CASE Invoke(p) \/ Return(p) \/ Applies(p) \/ (Work(p) /\ pc'[p] = "done")
      <4>1. \/ KV!KVInvoke(p) \/ KV!KVApply(p) \/ KV!KVAnswer(p) \/ KV!KVReturn(p)
            \/ MayBeWrong(p)
        BY <1>2, <2>1, <3>3, InvokeImplements, ReturnImplements, ApplyImplements, AnswerImplements
      <4> QED
        BY <3>2, <4>1 DEF KV!KVNext
    <3>4. CASE Work(p) /\ ~Return(p) /\ ~Applies(p) /\ pc'[p] # "done"
      <4>1. UNCHANGED <<AbsMap, call, StageMap, ResMap, seen>>
        BY <1>2, <2>1, <3>4, WayStutters
      <4> QED
        BY <4>1 DEF KV!kvVars, StageMap, ResMap
    <3> QED
      BY <3>1, <3>3, <3>4
  <2> QED
    BY <1>2, <2>1
<1> QED
  BY <1>1, <1>2, Invariance, AnswersInvariance, PTL DEF Spec, UpdatesLinearizable
=============================================================================
