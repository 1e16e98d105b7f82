------------------------- MODULE ClhtFixed_proofs -------------------------
(***************************************************************************)
(* Proofs about ClhtFixed, for every number of threads, keys, entries per   *)
(* bucket and buckets: the types and the lock, that no key is in two        *)
(* places, and that a packed chain has no holes.  All follow from IndInv,   *)
(* which says what the thread that has the lock knows.                      *)
(***************************************************************************)
EXTENDS ClhtFixed, TLAPS

USE DEF None

(* A bucket has a first slot, the chain a first bucket, and a value that is *)
(* in no entry is one more than the others.                                 *)
LEMMA Bounds ==
  /\ Slots \subseteq Nat /\ 1 \in Slots /\ ENTRIES_PER_BUCKET \in Slots
  /\ Buckets \subseteq Nat /\ 1 \in Buckets
  /\ Nowhere \notin Places /\ Junk \in Nat
  /\ \A pl \in Places : pl = <<pl[1], pl[2]>> /\ pl[1] \in Buckets /\ pl[2] \in Slots
  /\ \A x \in Buckets, y \in Slots : <<x, y>> \in Places
BY SizesAssumption DEF Slots, Buckets, Places, Nowhere, Junk

(* A call has a key and, if it is a put, a value.                           *)
LEMMA CallTypes ==
  ASSUME NEW c \in Calls \cup {Idle}
  PROVE  /\ c.val \in 0..Junk
         /\ c \in Calls => c.key \in Keys /\ c.key # 0 /\ c.key \in Nat
         /\ c.op \in {"idle", "put", "get", "remove"}
<1>1. CASE c = Idle
  <2>1. Idle.op = "idle" /\ Idle.val = 0 /\ Idle.key = 0
    BY DEF Idle
  <2> QED
    BY <1>1, <2>1, SizesAssumption, KeysAssumption DEF Calls, Junk
<1>2. CASE c \in Calls
  <2>1. c.op \in {"put", "get", "remove"} /\ c.key \in Keys /\ c.val \in Vals \cup {0}
    BY <1>2 DEF Calls
  <2>2. Vals \subseteq 0..Junk /\ 0 \in 0..Junk
    BY SizesAssumption DEF Vals, Junk
  <2>3. c.key # 0 /\ c.key \in Nat
    BY <2>1, KeysAssumption
  <2> QED
    BY <2>1, <2>2, <2>3
<1> QED
  BY <1>1, <1>2

(* Lists of one to four stores: the first one and the rest.                 *)
LEMMA Lists ==
  /\ \A x \in StoreNames : /\ <<x>> \in Seq(StoreNames) /\ Head(<<x>>) = x
                           /\ Tail(<<x>>) = << >> /\ Len(<<x>>) = 1 /\ <<x>> # << >>
  /\ \A x, y \in StoreNames :
       /\ <<x, y>> \in Seq(StoreNames) /\ Head(<<x, y>>) = x
       /\ Tail(<<x, y>>) = <<y>> /\ Len(<<x, y>>) # 1 /\ <<x, y>> # << >>
  /\ \A x, y, z \in StoreNames :
       /\ <<x, y, z>> \in Seq(StoreNames) /\ Head(<<x, y, z>>) = x
       /\ Tail(<<x, y, z>>) = <<y, z>> /\ Len(<<x, y, z>>) # 1 /\ <<x, y, z>> # << >>
  /\ \A w, x, y, z \in StoreNames :
       /\ <<w, x, y, z>> \in Seq(StoreNames) /\ Head(<<w, x, y, z>>) = w
       /\ Tail(<<w, x, y, z>>) = <<x, y, z>> /\ Len(<<w, x, y, z>>) # 1 /\ <<w, x, y, z>> # << >>
<1>1. << >> \in Seq(StoreNames)
  OBVIOUS
<1>2. \A x \in StoreNames : /\ <<x>> \in Seq(StoreNames) /\ Head(<<x>>) = x
                           /\ Tail(<<x>>) = << >> /\ Len(<<x>>) = 1 /\ <<x>> # << >>
  OBVIOUS
<1>3. \A x, y \in StoreNames :
       /\ <<x, y>> \in Seq(StoreNames) /\ Head(<<x, y>>) = x
       /\ Tail(<<x, y>>) = <<y>> /\ Len(<<x, y>>) # 1 /\ <<x, y>> # << >>
  OBVIOUS
<1>4. \A x, y, z \in StoreNames :
       /\ <<x, y, z>> \in Seq(StoreNames) /\ Head(<<x, y, z>>) = x
       /\ Tail(<<x, y, z>>) = <<y, z>> /\ Len(<<x, y, z>>) # 1 /\ <<x, y, z>> # << >>
  OBVIOUS
<1>5. \A w, x, y, z \in StoreNames :
       /\ <<w, x, y, z>> \in Seq(StoreNames) /\ Head(<<w, x, y, z>>) = w
       /\ Tail(<<w, x, y, z>>) = <<x, y, z>> /\ Len(<<w, x, y, z>>) # 1 /\ <<w, x, y, z>> # << >>
  OBVIOUS
<1> QED
  BY <1>2, <1>3, <1>4, <1>5

(* What is left of a list of stores after the first one.                    *)
Rest(s, S) == /\ s \in Seq(StoreNames) /\ Tail(s) \in Seq(StoreNames)
              /\ s # << >> /\ Head(s) \in StoreNames
              /\ IF Len(s) = 1 THEN Tail(s) = << >> ELSE Tail(s) \in S

(* Of the stores of a put, the rest is a rest of the stores of a put.       *)
LEMMA RestOfPut == \A s \in KeyAhead \cup {<<"val">>} : Rest(s, KeyAhead \cup {<<"val">>})
<1> DEFINE S == KeyAhead \cup {<<"val">>}
<1>0. {"link", "key", "val"} \subseteq StoreNames
  BY DEF StoreNames
<1>1. Rest(<<"val">>, S) /\ Rest(<<"key">>, S)
  BY <1>0, Lists DEF Rest
<1>2. Rest(<<"key", "val">>, S) /\ Rest(<<"val", "key">>, S)
  BY <1>0, Lists DEF Rest, KeyAhead
<1>3. Rest(<<"link", "key", "val">>, S) /\ Rest(<<"link", "val", "key">>, S)
  BY <1>0, Lists DEF Rest, KeyAhead
<1> QED
  BY <1>1, <1>2, <1>3 DEF KeyAhead

(* The same of the stores of a put of a packed table.                       *)
LEMMA RestOfPackedPut == \A s \in PutsAhead : Rest(s, PutsAhead)
<1>0. {"link", "key", "val", "last"} \subseteq StoreNames
  BY DEF StoreNames
<1>1. Rest(<<"last">>, PutsAhead)
  BY <1>0, Lists DEF Rest
<1>2. Rest(<<"key", "last">>, PutsAhead) /\ Rest(<<"val", "last">>, PutsAhead)
  BY <1>0, Lists DEF Rest, PutsAhead
<1>3. Rest(<<"key", "val", "last">>, PutsAhead) /\ Rest(<<"val", "key", "last">>, PutsAhead)
  BY <1>0, Lists DEF Rest, PutsAhead
<1>4. Rest(<<"link", "key", "val", "last">>, PutsAhead)
  BY <1>0, Lists DEF Rest, PutsAhead
<1> QED
  BY <1>1, <1>2, <1>3, <1>4 DEF PutsAhead

(* And of those of a remove of a packed table.                              *)
LEMMA RestOfRemove == \A s \in Removing : Rest(s, Removing)
<1>0. {"clear", "moveval", "movekey", "unlast"} \subseteq StoreNames
  BY DEF StoreNames
<1>1. Rest(<<"unlast">>, Removing)
  BY <1>0, Lists DEF Rest
<1>2. Rest(<<"movekey", "unlast">>, Removing)
  BY <1>0, Lists DEF Rest, Removing
<1>3. Rest(<<"moveval", "movekey", "unlast">>, Removing)
  BY <1>0, Lists DEF Rest, Removing
<1>4. Rest(<<"clear", "moveval", "movekey", "unlast">>, Removing)
  BY <1>0, Lists DEF Rest, Removing
<1> QED
  BY <1>1, <1>2, <1>3, <1>4 DEF Removing

(* What is left after the next store of an update is what may be left.      *)
LEMMA NextStore ==
  ASSUME NEW p \in Threads, stores[p] \in StoresLeft(p)
  PROVE  Rest(stores[p], StoresLeft(p))
<1>1. Rest(<<"clear">>, {<<"clear">>})
  <2>1. "clear" \in StoreNames
    BY DEF StoreNames
  <2> QED
    BY <2>1, Lists DEF Rest
<1> QED
  BY <1>1, RestOfPut, RestOfPackedPut, RestOfRemove DEF StoresLeft

(* The first of the stores still to do tells which ones they are.           *)
First(s) ==
  \/ /\ Head(s) = "link" /\ s \in {<<"link", "key", "val">>, <<"link", "val", "key">>,
                                  <<"link", "key", "val", "last">>}
     /\ Tail(s) \in {<<"key", "val">>, <<"val", "key">>, <<"key", "val", "last">>}
  \/ /\ Head(s) = "val" /\ s \in {<<"val", "key">>, <<"val">>, <<"val", "key", "last">>,
                                 <<"val", "last">>}
     /\ Tail(s) \in {<<"key">>, << >>, <<"key", "last">>, <<"last">>}
  \/ /\ Head(s) = "key" /\ s \in {<<"key", "val">>, <<"key">>, <<"key", "val", "last">>,
                                 <<"key", "last">>}
     /\ Tail(s) \in {<<"val">>, << >>, <<"val", "last">>, <<"last">>}
  \/ Head(s) = "last" /\ s = <<"last">>
  \/ Head(s) = "clear" /\ s = <<"clear">>
  \/ /\ Head(s) = "clear" /\ s = <<"clear", "moveval", "movekey", "unlast">>
     /\ Tail(s) = <<"moveval", "movekey", "unlast">>
  \/ /\ Head(s) = "moveval" /\ s = <<"moveval", "movekey", "unlast">>
     /\ Tail(s) = <<"movekey", "unlast">>
  \/ Head(s) = "movekey" /\ s = <<"movekey", "unlast">> /\ Tail(s) = <<"unlast">>
  \/ Head(s) = "unlast" /\ s = <<"unlast">>

(* The first of the stores that are left is one of those named.             *)
LEMMA FirstStore ==
  ASSUME NEW p \in Threads, stores[p] \in StoresLeft(p)
  PROVE  First(stores[p])
<1>0. {"link", "key", "val", "last", "clear", "moveval", "movekey", "unlast"} \subseteq StoreNames
  BY DEF StoreNames
<1>1. First(<<"link", "key", "val", "last">>) /\ First(<<"link", "key", "val">>)
      /\ First(<<"link", "val", "key">>)
  BY <1>0, Lists DEF First
<1>2. First(<<"key", "val", "last">>) /\ First(<<"val", "key", "last">>)
  BY <1>0, Lists DEF First
<1>3. First(<<"val", "last">>) /\ First(<<"key", "last">>) /\ First(<<"last">>)
  BY <1>0, Lists DEF First
<1>4. First(<<"key", "val">>) /\ First(<<"val", "key">>) /\ First(<<"key">>) /\ First(<<"val">>)
  BY <1>0, Lists DEF First
<1>5. First(<<"clear">>) /\ First(<<"clear", "moveval", "movekey", "unlast">>)
  BY <1>0, Lists DEF First
<1>6. First(<<"moveval", "movekey", "unlast">>) /\ First(<<"movekey", "unlast">>)
      /\ First(<<"unlast">>)
  BY <1>0, Lists DEF First
<1> QED
  BY <1>1, <1>2, <1>3, <1>4, <1>5, <1>6 DEF StoresLeft, PutsAhead, KeyAhead, Removing

-----------------------------------------------------------------------------
(* The end of a packed chain is the one bucket the search for it finds.     *)
LEMMA LastBucketEnd ==
  ASSUME TypeOK, NEW p \in Threads, NEW e \in 1..linked, FilledTo(e), e > 1 => last[e] > 0,
         b[p] \in 1..e
  PROVE  LastBucket(p) = e
<1> DEFINE Ends(x) == /\ \A y \in (b[p] + 1)..x : last[y] # 0
                      /\ x = linked \/ last[x + 1] = 0
<1>1. linked \in Nat /\ linked <= MaxBuckets /\ MaxBuckets \in Nat /\ e \in Nat /\ b[p] \in Nat
  BY SizesAssumption DEF TypeOK, Buckets
<1>2. e \in b[p]..linked /\ Ends(e)
  <2>1. \A y \in (b[p] + 1)..e : last[y] # 0
    BY <1>1, SizesAssumption DEF FilledTo
  <2>2. e = linked \/ last[e + 1] = 0
    BY <1>1 DEF FilledTo
  <2> QED
    BY <2>1, <2>2, <1>1
<1>3. ASSUME NEW x \in b[p]..linked, Ends(x) PROVE x = e
  <2>1. x \in Nat
    BY <1>1
  <2>2. ASSUME x < e PROVE FALSE
    <3>1. x + 1 \in 1..e /\ x + 1 > 1
      BY <1>1, <2>1, <2>2
    <3>2. last[x + 1] # 0
      BY <3>1, <1>1, SizesAssumption DEF FilledTo
    <3> QED
      BY <3>2, <1>3, <2>2, <1>1, <2>1
  <2>3. ASSUME x > e PROVE FALSE
    <3>1. e + 1 \in (b[p] + 1)..x /\ e + 1 \in (e + 1)..MaxBuckets
      BY <1>1, <2>1, <2>3
    <3> QED
      BY <3>1, <1>3 DEF FilledTo
  <2> QED
    BY <2>1, <2>2, <2>3, <1>1
<1>4. LastBucket(p) = CHOOSE x \in b[p]..linked : Ends(x)
  BY DEF LastBucket
<1> HIDE DEF Ends
<1> QED
  BY <1>2, <1>3, <1>4

(* A packed remove that has found its key moves the last entry there is.    *)
LEMMA Moved ==
  ASSUME IndInv, NEW p \in Threads, pc[p] = "store", variant = "packed", call[p].op = "remove"
  PROVE  \E e \in 1..linked :
           /\ FilledTo(e) /\ LastBucket(p) = e /\ e \in Buckets /\ last[e] \in Slots
           /\ b[p] \in 1..e /\ empty[p] = <<b[p], j[p]>> /\ j[p] \in 1..last[b[p]]
           /\ LastPlace(p) = <<e, last[e]>> /\ LastPlace(p) \in Places
<1>1. PICK e \in 1..linked : FilledTo(e) /\ (e > 1 => last[e] > 0)
  BY DEF IndInv, Filled
<1>2. /\ empty[p] = <<b[p], j[p]>> /\ j[p] <= last[b[p]] /\ empty[p] \in Places
      /\ b[p] \in Buckets /\ j[p] \in Nat
  BY DEF IndInv, Storing, TypeOK
<1>3. b[p] \in Buckets /\ j[p] \in Slots
  BY <1>2, Bounds
<1>4. linked \in Nat /\ linked <= MaxBuckets /\ e \in Nat /\ e \in Buckets /\ b[p] \in Nat
      /\ MaxBuckets \in Nat
  BY SizesAssumption DEF IndInv, TypeOK, Buckets
<1>5. b[p] <= e
  <2> SUFFICES ASSUME b[p] > e PROVE FALSE
    BY <1>4
  <2>1. last[b[p]] = 0
    BY <1>3, <1>4, <1>1 DEF FilledTo, Buckets
  <2> QED
    BY <2>1, <1>2, <1>3 DEF Slots
<1>6. b[p] \in 1..e
  BY <1>3, <1>4, <1>5 DEF Buckets
<1>7. TypeOK
  BY DEF IndInv
<1>8. LastBucket(p) = e
  BY <1>1, <1>6, <1>7, LastBucketEnd
<1>9. last[e] \in 0..ENTRIES_PER_BUCKET
  BY <1>4, <1>7 DEF TypeOK
<1>10. last[e] > 0
  <2>1. CASE e > 1
    BY <2>1, <1>1
  <2>2. CASE e = 1
    <3>1. b[p] = 1
      BY <2>2, <1>6
    <3> QED
      BY <3>1, <2>2, <1>2, <1>3, <1>9, SizesAssumption DEF Slots
  <2> QED
    BY <2>1, <2>2, <1>4
<1>11. last[e] \in Slots
  BY <1>9, <1>10, SizesAssumption DEF Slots
<1>12. LastPlace(p) = <<e, last[e]>> /\ LastPlace(p) \in Places
  BY <1>8, <1>11, <1>4, Bounds DEF LastPlace
<1>13. j[p] \in 1..last[b[p]]
  <2>1. last[b[p]] \in Nat
    BY <1>3, <1>7, SizesAssumption DEF TypeOK
  <2> QED
    BY <1>2, <1>3, <2>1 DEF Slots
<1> QED
  BY <1>1, <1>2, <1>4, <1>6, <1>8, <1>11, <1>12, <1>13

-----------------------------------------------------------------------------
(* Who has the lock.                                                        *)
LEMMA Holder ==
  ASSUME TypeOK, NEW p \in Threads
  PROVE  /\ pc[p] \in {"search", "store", "unlock"} <=> lock = p
         /\ lock = None => pc[p] \notin {"search", "store", "unlock"}
BY ThreadsAssumption DEF TypeOK

(* The search without the lock keeps the types.                             *)
LEMMA AdvanceTypes ==
  ASSUME TypeOK, NEW p \in Threads, Advance(p), pc[p] \in {"look", "key"}, j[p] \in Slots
  PROVE  /\ pc' \in [Threads -> Labels] /\ b' \in [Threads -> Buckets]
         /\ j' \in [Threads -> 1..(ENTRIES_PER_BUCKET + 1)]
         /\ \E l \in {"look", "last", "lock", "done"} : pc' = [pc EXCEPT ![p] = l]
<1>1. /\ linked \in Nat /\ linked <= MaxBuckets /\ MaxBuckets \in Nat
      /\ b \in [Threads -> Buckets] /\ j \in [Threads -> 1..(ENTRIES_PER_BUCKET + 1)]
      /\ b[p] \in Nat /\ b[p] >= 1
  BY SizesAssumption DEF TypeOK, Buckets
<1>2. b[p] < linked => b[p] + 1 \in Buckets
  BY <1>1 DEF Buckets
<1>3. /\ 1 \in 1..(ENTRIES_PER_BUCKET + 1)
      /\ j[p] > 1 => j[p] - 1 \in 1..(ENTRIES_PER_BUCKET + 1)
      /\ j[p] < ENTRIES_PER_BUCKET => j[p] + 1 \in 1..(ENTRIES_PER_BUCKET + 1)
  BY SizesAssumption DEF Slots
<1>4. /\ UNCHANGED <<b, j>> \/ \E x \in Buckets, y \in 1..(ENTRIES_PER_BUCKET + 1) : At(p, x, y)
      /\ \E l \in {"look", "last", "lock", "done"} : Goto(p, l)
  <2>1. CASE Missing(p)
    BY <2>1 DEF Missing
  <2>2. CASE variant = "packed" /\ ~Missing(p)
    BY <2>2, <1>1, <1>2, <1>3 DEF Advance
  <2>3. CASE variant # "packed" /\ ~Missing(p)
    BY <2>3, <1>1, <1>2, <1>3 DEF Advance
  <2> QED
    BY <2>1, <2>2, <2>3
<1>5. pc \in [Threads -> Labels]
  BY DEF TypeOK
<1> QED
  BY <1>1, <1>4, <1>5 DEF At, Goto, Labels

(* The steps of a search keep the types.                                    *)
LEMMA TypesSearch ==
  ASSUME TypeOK, NEW p \in Threads, Phase(p), variant' = variant,
         clht_get(p) \/ bucket_exists(p) \/ Lock(p) \/ Unlock(p)
  PROVE  TypeOK'
<1> USE DEF Labels
<1>1. CASE LookVal(p)
  <2>1. ValAt(p) \in 0..Junk
    BY <1>1 DEF TypeOK, Phase, ValAt, LookVal
  <2> QED
    BY <1>1, <2>1 DEF TypeOK, LookVal, Goto, table
<1>2. CASE LookAgain(p)
  BY <1>2, SizesAssumption DEF TypeOK, LookAgain, Goto, table, Junk
<1>3. CASE ReadLast(p)
  <2>1. last[b[p]] \in 0..ENTRIES_PER_BUCKET
    BY DEF TypeOK
  <2>2. CASE last[b[p]] = 0
    BY <1>3, <2>1, <2>2 DEF TypeOK, ReadLast, Missing, Goto, table
  <2>3. CASE last[b[p]] # 0
    <3>1. last[b[p]] \in 1..(ENTRIES_PER_BUCKET + 1)
      BY <2>1, <2>3, SizesAssumption
    <3> QED
      BY <1>3, <2>1, <2>3, <3>1 DEF TypeOK, ReadLast, At, Goto, table
  <2> QED
    BY <2>2, <2>3
<1>4. CASE LookKey(p)
  <2>1. pc[p] \in {"look", "key"} /\ j[p] \in Slots
    BY <1>4 DEF LookKey, Phase
  <2>2. CASE Found(p) /\ UNCHANGED <<b, j>>
    BY <1>4, <2>1, <2>2 DEF TypeOK, LookKey, Found, Goto, table
  <2>3. CASE Advance(p)
    <3>1. /\ pc' \in [Threads -> Labels] /\ b' \in [Threads -> Buckets]
          /\ j' \in [Threads -> 1..(ENTRIES_PER_BUCKET + 1)]
          /\ \E l \in {"look", "last", "lock", "done"} : pc' = [pc EXCEPT ![p] = l]
      BY <2>1, <2>3, AdvanceTypes
    <3> QED
      BY <1>4, <2>1, <3>1 DEF TypeOK, LookKey, table
  <2> QED
    BY <1>4, <2>2, <2>3 DEF LookKey
<1>5. CASE Lock(p)
  <2>1. \A q \in Threads : pc[q] \notin {"search", "store", "unlock"}
    BY <1>5, Holder DEF Lock
  <2>2. 1 \in Buckets /\ 1 \in 1..(ENTRIES_PER_BUCKET + 1)
    BY Bounds, SizesAssumption
  <2>3. /\ pc' = [pc EXCEPT ![p] = "search"] /\ lock' = p /\ pc \in [Threads -> Labels]
        /\ p # 0
    BY <1>5, ThreadsAssumption DEF Lock, Goto, TypeOK
  <2>4. \A q \in Threads : pc'[q] \in {"search", "store", "unlock"} <=> lock' = q
    BY <2>1, <2>3
  <2> QED
    BY <1>5, <2>2, <2>3, <2>4 DEF TypeOK, Lock, At
<1>6. CASE Unlock(p)
  BY <1>6, ThreadsAssumption DEF TypeOK, Unlock, Goto, locals
<1> QED
  BY <1>1, <1>2, <1>3, <1>4, <1>5, <1>6 DEF clht_get, bucket_exists

(* The lock stays with its thread until that thread releases it.            *)
LEMMA LockStays ==
  ASSUME TypeOK, NEW p \in Threads, NEW l \in Labels, Goto(p, l), lock' = lock,
         l \in {"search", "store", "unlock"} <=> pc[p] \in {"search", "store", "unlock"}
  PROVE  /\ pc' \in [Threads -> Labels]
         /\ \A q \in Threads : pc'[q] \in {"search", "store", "unlock"} <=> lock' = q
  BY DEF TypeOK, Goto

(* A search under the lock looks at a place of the chain.                   *)
LEMMA SearchPlace ==
  ASSUME TypeOK, NEW p \in Threads, j[p] <= Limit(p)
  PROVE  /\ b[p] \in Buckets /\ j[p] \in Slots /\ <<b[p], j[p]>> \in Places
         /\ j[p] + 1 \in 1..(ENTRIES_PER_BUCKET + 1)
         /\ KeyAt(p) \in Keys \cup {0, KEY_BLCK} /\ ValAt(p) \in 0..Junk
<1>1. b[p] \in Buckets /\ j[p] \in 1..(ENTRIES_PER_BUCKET + 1)
      /\ last[b[p]] \in 0..ENTRIES_PER_BUCKET
  BY DEF TypeOK
<1>2. j[p] <= ENTRIES_PER_BUCKET
  BY <1>1, SizesAssumption DEF Limit
<1>3. j[p] \in Slots /\ j[p] + 1 \in 1..(ENTRIES_PER_BUCKET + 1)
  BY <1>1, <1>2, SizesAssumption DEF Slots
<1> QED
  BY <1>1, <1>3, Bounds DEF TypeOK, KeyAt, ValAt

(* The place of a new entry.                                                *)
LEMMA FreePlace ==
  ASSUME TypeOK, NEW p \in Threads, Searching(p), pc[p] = "search", j[p] > Limit(p),
         variant = "packed", ~Full(p)
  PROVE  <<b[p], j[p]>> \in Places /\ j[p] = last[b[p]] + 1
<1>1. b[p] \in Buckets /\ j[p] \in 1..(ENTRIES_PER_BUCKET + 1)
      /\ last[b[p]] \in 0..ENTRIES_PER_BUCKET
  BY DEF TypeOK
<1>2. j[p] = last[b[p]] + 1 /\ last[b[p]] < ENTRIES_PER_BUCKET
  BY <1>1, SizesAssumption DEF Searching, Limit, Full
<1> QED
  BY <1>1, <1>2, SizesAssumption, Bounds DEF Slots

(* The steps under the lock before the stores keep the types.               *)
LEMMA TypesUnderLock ==
  ASSUME TypeOK, NEW p \in Threads, Phase(p), Searching(p), variant' = variant,
         clht_put(p) \/ SearchRemove(p)
  PROVE  TypeOK'
<1> USE DEF Labels
<1>1. CASE SearchPut(p)
  <2>1. <<b[p], j[p]>> \in Places /\ j[p] + 1 \in 1..(ENTRIES_PER_BUCKET + 1)
    BY <1>1, SearchPlace DEF SearchPut
  <2>2. pc[p] = "search"
    BY <1>1 DEF SearchPut
  <2>3. UNCHANGED pc \/ pc' = [pc EXCEPT ![p] = "unlock"]
    BY <1>1 DEF SearchPut, Goto
  <2>4. UNCHANGED j \/ j' = [j EXCEPT ![p] = @ + 1]
    BY <1>1 DEF SearchPut
  <2>5. UNCHANGED empty \/ empty' = [empty EXCEPT ![p] = <<b[p], j[p]>>]
    BY <1>1 DEF SearchPut, TypeOK
  <2>6. UNCHANGED <<table, call, b, found, bu_last, stores, ret, puts>>
    BY <1>1 DEF SearchPut
  <2>7. /\ pc' \in [Threads -> Labels]
        /\ \A q \in Threads : pc'[q] \in {"search", "store", "unlock"} <=> lock' = q
    BY <2>2, <2>3, <2>6, LockStays DEF TypeOK, Goto, table
  <2>8. /\ j' \in [Threads -> 1..(ENTRIES_PER_BUCKET + 1)]
        /\ empty' \in [Threads -> Places \cup {Nowhere}]
    <3>1. j' \in [Threads -> 1..(ENTRIES_PER_BUCKET + 1)]
      BY <2>1, <2>4 DEF TypeOK
    <3>2. empty' \in [Threads -> Places \cup {Nowhere}]
      BY <2>1, <2>5 DEF TypeOK
    <3> QED
      BY <3>1, <3>2
  <2> QED
    BY <2>6, <2>7, <2>8 DEF TypeOK, table
<1>2. CASE SearchOn(p)
  <2>1. /\ linked \in Nat /\ linked <= MaxBuckets /\ MaxBuckets \in Nat
        /\ b[p] \in Nat /\ b[p] >= 1
    BY SizesAssumption DEF TypeOK, Buckets
  <2>2. b[p] + 1 \in Buckets
    BY <2>1, <1>2 DEF Buckets, SearchOn
  <2>3. 1 \in 1..(ENTRIES_PER_BUCKET + 1)
    BY SizesAssumption
  <2> QED
    BY <1>2, <2>2, <2>3 DEF TypeOK, SearchOn, At, table
<1>3. CASE SearchEnds(p)
  <2> DEFINE free == IF variant = "packed" /\ ~Full(p) THEN <<b[p], j[p]>> ELSE empty[p]
  <2>1. free \in Places \cup {Nowhere}
    BY <1>3, FreePlace DEF SearchEnds, TypeOK
  <2>2. \A f \in {TRUE, FALSE} : PutStores(f) \in Seq(StoreNames)
    BY RestOfPut, RestOfPackedPut DEF PutStores, Rest, KeyAhead, PutsAhead
  <2>3. pc[p] = "search"
    BY <1>3 DEF SearchEnds
  <2>4. free = Nowhere => linked < MaxBuckets \/ call[p].op = "remove"
    BY <1>3 DEF SearchEnds
  <2>5. linked < MaxBuckets => <<linked + 1, 1>> \in Places
    <3>1. linked < MaxBuckets => linked + 1 \in Buckets
      BY SizesAssumption DEF TypeOK, Buckets
    <3> QED
      BY <3>1, Bounds
  <2>6. PutStores(free = Nowhere) \in Seq(StoreNames)
    BY <2>2
  <2> HIDE DEF free
  <2>7. empty' \in [Threads -> Places \cup {Nowhere}]
    <3>1. \/ UNCHANGED empty
          \/ /\ call[p].op # "remove"
             /\ empty' = [empty EXCEPT ![p] = IF free = Nowhere THEN <<linked + 1, 1>> ELSE free]
      BY <1>3 DEF SearchEnds, free
    <3> QED
      BY <3>1, <2>1, <2>4, <2>5 DEF TypeOK
  <2>8. stores' \in [Threads -> Seq(StoreNames)]
    <3>1. UNCHANGED stores \/ stores' = [stores EXCEPT ![p] = PutStores(free = Nowhere)]
      BY <1>3 DEF SearchEnds, free
    <3> QED
      BY <3>1, <2>6 DEF TypeOK
  <2>9. pc' = [pc EXCEPT ![p] = "unlock"] \/ pc' = [pc EXCEPT ![p] = "store"]
    BY <1>3 DEF SearchEnds, Goto
  <2>10. UNCHANGED <<table, call, b, j, found, bu_last, ret, puts>>
    BY <1>3 DEF SearchEnds
  <2> QED
    BY <2>3, <2>7, <2>8, <2>9, <2>10 DEF TypeOK, table
<1>4. CASE SearchRemove(p)
  <2>1. <<b[p], j[p]>> \in Places /\ j[p] + 1 \in 1..(ENTRIES_PER_BUCKET + 1)
        /\ ValAt(p) \in 0..Junk
    BY <1>4, SearchPlace DEF SearchRemove
  <2>2. <<"clear", "moveval", "movekey", "unlast">> \in Seq(StoreNames)
        /\ <<"clear">> \in Seq(StoreNames)
    <3>1. {"clear", "moveval", "movekey", "unlast"} \subseteq StoreNames
      BY DEF StoreNames
    <3> QED
      BY <3>1, Lists
  <2>3. pc[p] = "search"
    BY <1>4 DEF SearchRemove
  <2>4. \/ UNCHANGED <<pc, ret, stores, empty>> /\ j' = [j EXCEPT ![p] = @ + 1]
        \/ /\ ret' = [ret EXCEPT ![p] = ValAt(p)]
           /\ \E s \in Seq(StoreNames) : stores' = [stores EXCEPT ![p] = s]
           /\ empty' = [empty EXCEPT ![p] = <<b[p], j[p]>>]
           /\ pc' = [pc EXCEPT ![p] = "store"] /\ UNCHANGED j
    BY <1>4, <2>2 DEF SearchRemove, Goto
  <2>5. UNCHANGED <<table, call, b, found, bu_last, puts>>
    BY <1>4 DEF SearchRemove
  <2>6. /\ pc' \in [Threads -> Labels]
        /\ \A q \in Threads : pc'[q] \in {"search", "store", "unlock"} <=> lock' = q
    BY <2>3, <2>4, <2>5, LockStays DEF TypeOK, Goto, table
  <2>7. /\ j' \in [Threads -> 1..(ENTRIES_PER_BUCKET + 1)]
        /\ empty' \in [Threads -> Places \cup {Nowhere}]
        /\ ret' \in [Threads -> 0..Junk]
        /\ stores' \in [Threads -> Seq(StoreNames)]
    <3>1. CASE j' = [j EXCEPT ![p] = @ + 1] /\ UNCHANGED <<ret, stores, empty>>
      BY <3>1, <2>1 DEF TypeOK
    <3>2. CASE /\ ret' = [ret EXCEPT ![p] = ValAt(p)]
               /\ \E s \in Seq(StoreNames) : stores' = [stores EXCEPT ![p] = s]
               /\ empty' = [empty EXCEPT ![p] = <<b[p], j[p]>>] /\ UNCHANGED j
      BY <3>2, <2>1 DEF TypeOK
    <3> QED
      BY <3>1, <3>2, <2>4
  <2> QED
    BY <2>5, <2>6, <2>7 DEF TypeOK, table
<1> QED
  BY <1>1, <1>2, <1>3, <1>4 DEF clht_put

(* The steps that block and free a key without the lock, calls and returns  *)
(* keep the types.                                                          *)
LEMMA TypesOutside ==
  ASSUME TypeOK, NEW p \in Threads, Phase(p), variant' = variant,
         Block(p) \/ Take(p) \/ Free(p) \/ Invoke(p) \/ Return(p)
  PROVE  TypeOK'
<1> USE DEF Labels
<1>1. CASE Block(p)
  <2>1. b[p] \in Buckets /\ j[p] \in Slots /\ pc[p] = "block"
    BY <1>1 DEF TypeOK, Block, Phase
  <2>2. \/ UNCHANGED key /\ pc' = [pc EXCEPT ![p] = "done"]
        \/ /\ key' = [key EXCEPT ![b[p]][j[p]] = KEY_BLCK]
           /\ pc' = [pc EXCEPT ![p] = "take"]
    BY <1>1 DEF Block, Goto
  <2>3. UNCHANGED <<linked, val, last, lock, call, locals, puts>>
    BY <1>1 DEF Block
  <2>4. /\ pc' \in [Threads -> Labels]
        /\ \A q \in Threads : pc'[q] \in {"search", "store", "unlock"} <=> lock' = q
    BY <2>1, <2>2, <2>3, LockStays DEF TypeOK, Goto
  <2>5. key' \in [Buckets -> [Slots -> Keys \cup {None, KEY_BLCK}]]
    <3>1. key \in [Buckets -> [Slots -> Keys \cup {None, KEY_BLCK}]]
      BY DEF TypeOK
    <3>2. CASE key' = [key EXCEPT ![b[p]][j[p]] = KEY_BLCK]
      BY <2>1, <3>1, <3>2
    <3> QED
      BY <2>2, <3>1, <3>2
  <2> QED
    BY <2>3, <2>4, <2>5 DEF TypeOK, locals
<1>2. CASE Take(p)
  <2>1. ValAt(p) \in 0..Junk /\ pc[p] = "take"
    BY <1>2 DEF TypeOK, Take, Phase, ValAt
  <2> QED
    BY <1>2, <2>1 DEF TypeOK, Take, Goto, table
<1>3. CASE Free(p)
  <2>1. b[p] \in Buckets /\ j[p] \in Slots /\ pc[p] = "free"
    BY <1>3 DEF TypeOK, Free, Phase
  <2> QED
    BY <1>3, <2>1 DEF TypeOK, Free, Goto, locals
<1>4. CASE Invoke(p)
  <2>1. PICK c \in Calls : /\ call' = [call EXCEPT ![p] = c]
                           /\ c.op = "put" => puts < MaxPuts
                           /\ puts' = IF c.op = "put" THEN puts + 1 ELSE puts
    BY <1>4 DEF Invoke
  <2>2. puts' \in 0..MaxPuts
    BY <2>1, SizesAssumption DEF TypeOK
  <2>3. \E l \in {"look", "last"} : pc' = [pc EXCEPT ![p] = l]
    BY <1>4 DEF Invoke, Begin, Goto
  <2> QED
    BY <1>4, <2>1, <2>2, <2>3 DEF TypeOK, Invoke, table, locals
<1>5. CASE Return(p)
  <2>1. 1 \in Buckets /\ 1 \in 1..(ENTRIES_PER_BUCKET + 1) /\ 0 \in 0..Junk
        /\ 0 \in 0..ENTRIES_PER_BUCKET
    BY Bounds, SizesAssumption
  <2> QED
    BY <1>5, <2>1 DEF TypeOK, Return, At, Goto, table
<1> QED
  BY <1>1, <1>2, <1>3, <1>4, <1>5

(* The next store of an update: the place it goes to, and what changes.     *)
StoreAt(p, s) ==
  /\ stores' = [stores EXCEPT ![p] = Tail(@)]
  /\ pc' = [pc EXCEPT ![p] = IF Len(stores[p]) = 1 THEN "unlock" ELSE "store"]
  /\ key' = [key EXCEPT ![empty[p][1]][empty[p][2]] = KeyStored(p, s)]
  /\ val' = [val EXCEPT ![empty[p][1]][empty[p][2]] = ValStored(p, s)]
  /\ linked' = IF s = "link" THEN linked + 1 ELSE linked
  /\ s = "last" => last' = [last EXCEPT ![empty[p][1]] = @ + 1]
  /\ s = "unlast" => last' = [last EXCEPT ![LastBucket(p)] = @ - 1]
  /\ s \notin {"last", "unlast"} => last' = last
  /\ UNCHANGED <<lock, call, b, j, empty>>

(* A store writes the first of what is left, at the place the search found. *)
LEMMA StoreEffect ==
  ASSUME IndInv, NEW p \in Threads, Store(p)
  PROVE  /\ StoreAt(p, Head(stores[p])) /\ First(stores[p])
         /\ pc[p] = "store" /\ empty[p] \in Places /\ Storing(p)
         /\ empty[p] = <<empty[p][1], empty[p][2]>>
         /\ empty[p][1] \in Buckets /\ empty[p][2] \in Slots
         /\ call[p] \in Calls /\ call[p].op \in {"put", "remove"} /\ call[p].key \in Keys
         /\ stores[p] \in StoresLeft(p) /\ Rest(stores[p], StoresLeft(p))
<1>1. pc[p] = "store"
  BY DEF Store
<1>2. stores[p] \in StoresLeft(p) /\ call[p] \in Calls /\ call[p].op \in {"put", "remove"}
  BY <1>1 DEF IndInv, Phase
<1>3. empty[p] \in Places /\ Storing(p)
  BY <1>1 DEF IndInv, Storing
<1>4. /\ empty[p] = <<empty[p][1], empty[p][2]>>
      /\ empty[p][1] \in Buckets /\ empty[p][2] \in Slots
  BY <1>3, Bounds
<1>5. call[p].key \in Keys
  BY <1>2, CallTypes
<1>6. First(stores[p]) /\ Rest(stores[p], StoresLeft(p))
  BY <1>2, FirstStore, NextStore
<1>7. StoreAt(p, Head(stores[p]))
  BY DEF Store, StoreAt, Goto
<1> QED
  BY <1>1, <1>2, <1>3, <1>4, <1>5, <1>6, <1>7

(* The stores of puts are those that only puts do.                          *)
LEMMA StoreOfPut ==
  ASSUME IndInv, NEW p \in Threads, Store(p)
  PROVE  /\ Head(stores[p]) \in {"link", "key", "val", "last"} <=> call[p].op = "put"
         /\ Head(stores[p]) \in {"last", "moveval", "movekey", "unlast"} => variant = "packed"
<1>0. {"link", "key", "val", "last", "clear", "moveval", "movekey", "unlast"} \subseteq StoreNames
  BY DEF StoreNames
<1>1. stores[p] \in StoresLeft(p) /\ call[p].op \in {"put", "remove"}
  BY StoreEffect
<1>2. CASE call[p].op = "put" /\ variant = "packed"
  BY <1>0, <1>1, <1>2, Lists DEF StoresLeft, PutsAhead
<1>3. CASE call[p].op = "put" /\ variant # "packed"
  BY <1>0, <1>1, <1>3, Lists DEF StoresLeft, KeyAhead
<1>4. CASE call[p].op = "remove" /\ variant = "packed"
  BY <1>0, <1>1, <1>4, Lists DEF StoresLeft, Removing
<1>5. CASE call[p].op = "remove" /\ variant # "packed"
  BY <1>0, <1>1, <1>5, Lists DEF StoresLeft
<1> QED
  BY <1>1, <1>2, <1>3, <1>4, <1>5

(* A store keeps the types.                                                 *)
LEMMA TypesStore ==
  ASSUME IndInv, NEW p \in Threads, Store(p), variant' = variant
  PROVE  TypeOK'
<1> DEFINE s == Head(stores[p])
<1>0. TypeOK
  BY DEF IndInv
<1>1. /\ StoreAt(p, s) /\ First(stores[p]) /\ pc[p] = "store" /\ Storing(p)
      /\ empty[p][1] \in Buckets /\ empty[p][2] \in Slots
      /\ call[p] \in Calls /\ call[p].op \in {"put", "remove"} /\ call[p].key \in Keys
      /\ Rest(stores[p], StoresLeft(p))
  BY StoreEffect
<1>2. s \in {"moveval", "movekey", "unlast"} =>
        LastBucket(p) \in Buckets /\ last[LastBucket(p)] \in Slots
  <2> SUFFICES ASSUME s \in {"moveval", "movekey", "unlast"}
               PROVE  LastBucket(p) \in Buckets /\ last[LastBucket(p)] \in Slots
    OBVIOUS
  <2>1. call[p].op = "remove" /\ variant = "packed"
    BY StoreOfPut, <1>1
  <2> QED
    BY <2>1, <1>1, Moved
<1> HIDE DEF s
<1>3. KeyStored(p, s) \in Keys \cup {0, KEY_BLCK}
  <2>1. CASE s = "movekey"
    BY <2>1, <1>0, <1>2 DEF KeyStored, TypeOK
  <2>2. CASE s # "movekey"
    BY <2>2, <1>0, <1>1 DEF KeyStored, TypeOK
  <2> QED
    BY <2>1, <2>2
<1>4. ValStored(p, s) \in 0..Junk
  <2>1. CASE s = "moveval"
    BY <2>1, <1>0, <1>2 DEF ValStored, TypeOK
  <2>2. CASE s # "moveval"
    BY <2>2, <1>0, <1>1, CallTypes DEF ValStored, TypeOK
  <2> QED
    BY <2>1, <2>2
<1>5. /\ key' \in [Buckets -> [Slots -> Keys \cup {0, KEY_BLCK}]]
      /\ val' \in [Buckets -> [Slots -> 0..Junk]]
  BY <1>0, <1>1, <1>3, <1>4 DEF TypeOK, StoreAt
<1>6. linked' \in Buckets
  <2>1. CASE s = "link"
    <3>1. empty[p] = <<linked + 1, 1>>
      BY <2>1, <1>1 DEF Storing, s
    <3>2. linked + 1 = empty[p][1]
      BY <3>1
    <3> QED
      BY <2>1, <3>2, <1>1 DEF StoreAt
  <2> QED
    BY <2>1, <1>0, <1>1 DEF StoreAt, TypeOK
<1>7. last' \in [Buckets -> 0..ENTRIES_PER_BUCKET]
  <2>1. CASE s = "last"
    <3>1. call[p].op = "put" /\ variant = "packed"
      BY <2>1, StoreOfPut DEF s
    <3>2. last[empty[p][1]] + 1 \in 0..ENTRIES_PER_BUCKET
      BY <3>1, <1>0, <1>1 DEF Storing, Slots
    <3> QED
      BY <2>1, <3>2, <1>0, <1>1 DEF StoreAt, TypeOK
  <2>2. CASE s = "unlast"
    <3>1. last[LastBucket(p)] - 1 \in 0..ENTRIES_PER_BUCKET
      BY <2>2, <1>2, SizesAssumption DEF Slots
    <3> QED
      BY <2>2, <3>1, <1>0, <1>1 DEF StoreAt, TypeOK
  <2> QED
    BY <2>1, <2>2, <1>0, <1>1 DEF StoreAt, TypeOK
<1>8. /\ pc' \in [Threads -> Labels]
      /\ \A q \in Threads : pc'[q] \in {"search", "store", "unlock"} <=> lock' = q
  <2>1. lock' = lock /\ \E l \in {"unlock", "store"} : Goto(p, l)
    BY <1>1 DEF StoreAt, Goto
  <2> QED
    BY <2>1, <1>0, <1>1, LockStays DEF Labels
<1>9. stores' \in [Threads -> Seq(StoreNames)]
  BY <1>0, <1>1 DEF TypeOK, StoreAt, Rest
<1>10. ret' \in [Threads -> 0..Junk]
  <2>1. UNCHANGED ret \/ ret' = [ret EXCEPT ![p] = call[p].val]
    BY DEF Store
  <2> QED
    BY <2>1, <1>0, <1>1, CallTypes DEF TypeOK
<1>11. UNCHANGED <<lock, call, b, j, found, bu_last, empty, puts>>
  BY DEF Store
<1> QED
  BY <1>0, <1>5, <1>6, <1>7, <1>8, <1>9, <1>10, <1>11 DEF TypeOK

(* Every step keeps the types.                                              *)
LEMMA TypesStep == IndInv /\ Next => TypeOK'
<1> SUFFICES ASSUME IndInv, Next PROVE TypeOK'
  OBVIOUS
<1>1. variant' = variant /\ TypeOK
  BY DEF Next, IndInv
<1>2. PICK p \in Threads : Invoke(p) \/ Work(p)
  BY DEF Next
<1>3. Searching(p) /\ Phase(p)
  BY DEF IndInv
<1> QED
  BY <1>1, <1>2, <1>3, TypesSearch, TypesUnderLock, TypesOutside, TypesStore
     DEF Work, clht_remove

-----------------------------------------------------------------------------
(* A step leaves the local variables of the other threads alone.            *)
LEMMA OthersStay ==
  ASSUME TypeOK, NEW p \in Threads, Invoke(p) \/ Work(p), NEW q \in Threads, q # p
  PROVE  /\ pc'[q] = pc[q] /\ call'[q] = call[q] /\ b'[q] = b[q] /\ j'[q] = j[q]
         /\ empty'[q] = empty[q] /\ stores'[q] = stores[q]
<1> USE DEF TypeOK, Goto, At
<1>1. CASE Invoke(p) \/ Return(p) \/ LookVal(p) \/ LookAgain(p) \/ Lock(p) \/ Unlock(p)
  BY <1>1 DEF Invoke, Return, LookVal, LookAgain, Lock, Unlock, locals
<1>2. CASE ReadLast(p)
  BY <1>2 DEF ReadLast, Missing
<1>3. CASE LookKey(p)
  <2>1. CASE Found(p) /\ UNCHANGED <<b, j>>
    BY <1>3, <2>1 DEF LookKey, Found
  <2>2. CASE Advance(p)
    BY <1>3, <2>2 DEF LookKey, Advance, Missing
  <2> QED
    BY <1>3, <2>1, <2>2 DEF LookKey
<1>4. CASE SearchPut(p) \/ SearchOn(p)
  BY <1>4 DEF SearchPut, SearchOn
<1>5. CASE SearchEnds(p)
  BY <1>5 DEF SearchEnds
<1>6. CASE SearchRemove(p)
  BY <1>6 DEF SearchRemove
<1>7. CASE Store(p)
  BY <1>7 DEF Store
<1>8. CASE Block(p) \/ Take(p) \/ Free(p)
  BY <1>8 DEF Block, Take, Free, locals
<1> QED
  BY <1>1, <1>2, <1>3, <1>4, <1>5, <1>6, <1>7, <1>8
     DEF Work, clht_get, bucket_exists, clht_put, clht_remove

(* A step that does no stores has none to do, or those of its call.         *)
LEMMA PhaseStep ==
  ASSUME IndInv, NEW p \in Threads, Invoke(p) \/ Work(p), variant' = variant
  PROVE  Phase(p)'
<1>0. TypeOK /\ Phase(p)
  BY DEF IndInv, Phase
<1>1. CASE Invoke(p)
  <2>1. PICK c \in Calls : call' = [call EXCEPT ![p] = c]
    BY <1>1 DEF Invoke
  <2>2. call'[p] \in Calls
    BY <2>1, <1>0 DEF TypeOK
  <2>3. pc'[p] = Begin /\ pc[p] = "idle" /\ UNCHANGED <<j, empty, stores>>
    BY <1>1, <1>0 DEF Invoke, Goto, TypeOK, locals
  <2>4. j[p] \in Slots
    BY <2>3, <1>0 DEF Phase
  <2> QED
    BY <2>2, <2>3, <2>4, <1>0 DEF Phase, Begin
<1>2. CASE Return(p)
  BY <1>2, <1>0, Bounds DEF Return, Goto, At, TypeOK, Phase
<1>3. CASE LookVal(p) \/ LookAgain(p) \/ Take(p)
  BY <1>3, <1>0 DEF LookVal, LookAgain, Take, Goto, TypeOK, Phase
<1>4. CASE Lock(p) \/ Unlock(p)
  BY <1>4, <1>0 DEF Lock, Unlock, Goto, At, TypeOK, Phase, locals
<1>5. CASE ReadLast(p)
  <2>1. last[b[p]] \in 0..ENTRIES_PER_BUCKET /\ pc[p] = "last" /\ stores[p] = << >>
        /\ UNCHANGED <<call, empty, stores>>
    BY <1>5, <1>0 DEF ReadLast, TypeOK, Phase
  <2>2. CASE Missing(p)
    <3>1. pc'[p] = IF call[p].op = "put" THEN "lock" ELSE "done"
      BY <2>2, <1>0 DEF Missing, Goto, TypeOK
    <3> QED
      BY <3>1, <2>1, <1>0 DEF Phase
  <2>3. CASE ~Missing(p)
    <3>1. pc'[p] = "look" /\ j'[p] = last[b[p]] /\ last[b[p]] # 0
      BY <1>5, <2>3, <1>0 DEF ReadLast, Goto, At, TypeOK
    <3>2. j'[p] \in Slots
      BY <3>1, <2>1, SizesAssumption DEF Slots
    <3> QED
      BY <3>1, <3>2, <2>1, <1>0 DEF Phase
  <2> QED
    BY <2>2, <2>3
<1>6. CASE LookKey(p)
  <2>1. pc[p] \in {"look", "key"} /\ j[p] \in Slots /\ stores[p] = << >>
        /\ call[p] \in Calls /\ empty[p] = Nowhere /\ UNCHANGED <<call, empty, stores>>
    BY <1>6, <1>0 DEF LookKey, Phase
  <2>2. CASE Found(p) /\ UNCHANGED <<b, j>>
    <3>1. \/ call[p].op = "put" /\ pc'[p] = "done"
          \/ pc'[p] = "again" \/ (pc'[p] = "block" /\ variant = "lock_ins")
          \/ call[p].op = "remove" /\ pc'[p] = "lock"
      BY <2>2, <2>1, <1>0, CallTypes DEF Found, Goto, TypeOK, Calls
    <3> QED
      BY <3>1, <2>1, <2>2 DEF Phase
  <2>3. CASE Missing(p)
    <3>1. pc'[p] = IF call[p].op = "put" THEN "lock" ELSE "done"
      BY <2>3, <1>0 DEF Missing, Goto, TypeOK
    <3> QED
      BY <3>1, <2>1, <1>0 DEF Phase
  <2>4. CASE Advance(p) /\ ~Missing(p)
    <3>1. \/ pc'[p] = "last" /\ variant = "packed"
          \/ pc'[p] = "look" /\ j'[p] = 1
          \/ pc'[p] = "look" /\ j[p] > 1 /\ j'[p] = j[p] - 1
          \/ pc'[p] = "look" /\ j[p] < ENTRIES_PER_BUCKET /\ j'[p] = j[p] + 1
      BY <2>4, <1>0 DEF Advance, Goto, At, TypeOK
    <3>2. pc'[p] = "look" => j'[p] \in Slots
      BY <3>1, <2>1, SizesAssumption DEF Slots
    <3> QED
      BY <3>1, <3>2, <2>1, <1>0 DEF Phase
  <2> QED
    BY <1>6, <2>2, <2>3, <2>4 DEF LookKey
<1>7. CASE Block(p) \/ Free(p)
  BY <1>7, <1>0 DEF Block, Free, Goto, TypeOK, Phase, locals
<1>8. CASE SearchPut(p) \/ SearchOn(p)
  BY <1>8, <1>0 DEF SearchPut, SearchOn, Goto, At, TypeOK, Phase
<1>9. CASE SearchEnds(p)
  <2>1. pc[p] = "search" /\ stores[p] = << >> /\ call[p] \in Calls
        /\ call[p].op \in {"put", "remove"} /\ UNCHANGED <<call, j>>
    BY <1>9, <1>0 DEF SearchEnds, Phase
  <2>2. CASE call[p].op = "remove"
    BY <1>9, <2>1, <2>2, <1>0 DEF SearchEnds, Goto, TypeOK, Phase
  <2>3. CASE call[p].op = "put"
    <3>1. \E f \in {TRUE, FALSE} : stores'[p] = PutStores(f)
      BY <1>9, <2>1, <2>3, <1>0 DEF SearchEnds, TypeOK
    <3>2. \A f \in {TRUE, FALSE} : PutStores(f) \in StoresLeft(p)
      <4>1. CASE variant = "packed"
        <5>1. \A f \in {TRUE, FALSE} : PutStores(f) \in PutsAhead
          <6>1. /\ PutStores(TRUE) = <<"link", "key", "val", "last">>
                /\ PutStores(FALSE) = <<"val", "key", "last">>
            BY <4>1 DEF PutStores
          <6> QED
            BY <6>1 DEF PutsAhead
        <5> QED
          BY <5>1, <2>3, <4>1 DEF StoresLeft
      <4>2. CASE variant # "packed"
        <5>1. \A f \in {TRUE, FALSE} : PutStores(f) \in KeyAhead
          BY <4>2 DEF PutStores, KeyAhead
        <5> QED
          BY <5>1, <2>3, <4>2 DEF StoresLeft
      <4> QED
        BY <4>1, <4>2
    <3>3. StoresLeft(p)' = StoresLeft(p)
      BY <2>1 DEF StoresLeft
    <3>4. pc'[p] = "store"
      BY <1>9, <2>1, <2>3, <1>0 DEF SearchEnds, Goto, TypeOK
    <3> QED
      BY <3>1, <3>2, <3>3, <3>4, <2>1 DEF Phase
  <2> QED
    BY <2>1, <2>2, <2>3
<1>10. CASE SearchRemove(p)
  <2>1. pc[p] = "search" /\ stores[p] = << >> /\ call[p] \in Calls
        /\ call[p].op = "remove" /\ UNCHANGED call
    BY <1>10, <1>0 DEF SearchRemove, Phase
  <2>2. \/ /\ pc'[p] = "store"
           /\ stores'[p] = IF variant = "packed" THEN <<"clear", "moveval", "movekey", "unlast">>
                                                ELSE <<"clear">>
        \/ UNCHANGED <<pc, stores>>
    BY <1>10, <1>0 DEF SearchRemove, Goto, TypeOK
  <2>3. StoresLeft(p)' = IF variant = "packed" THEN Removing ELSE {<<"clear">>}
    BY <2>1 DEF StoresLeft
  <2> QED
    BY <2>1, <2>2, <2>3 DEF Phase, Removing
<1>11. CASE Store(p)
  <2>1. /\ StoreAt(p, Head(stores[p])) /\ pc[p] = "store" /\ call[p] \in Calls
        /\ call[p].op \in {"put", "remove"} /\ Rest(stores[p], StoresLeft(p))
    BY <1>11, StoreEffect
  <2>2. stores'[p] = Tail(stores[p]) /\ UNCHANGED <<call, j>>
        /\ pc'[p] = IF Len(stores[p]) = 1 THEN "unlock" ELSE "store"
    BY <2>1, <1>0 DEF StoreAt, TypeOK
  <2>3. StoresLeft(p)' = StoresLeft(p)
    BY <2>2 DEF StoresLeft
  <2> QED
    BY <2>1, <2>2, <2>3 DEF Phase, Rest
<1> QED
  BY <1>1, <1>2, <1>3, <1>4, <1>5, <1>6, <1>7, <1>8, <1>9, <1>10, <1>11
     DEF Work, clht_get, bucket_exists, clht_put, clht_remove

-----------------------------------------------------------------------------
(* Steps that write no key: entries can only go, and only from a table of   *)
(* lock_ins, where removes do not take the lock.                            *)
Shrinks == /\ UNCHANGED <<variant, linked, last>>
           /\ variant = "packed" => UNCHANGED key
           /\ \A k \in Keys : Holding(k)' \subseteq Holding(k)

(* Holding depends on keys, the chain and last only.                        *)
LEMMA HoldingSame ==
  ASSUME UNCHANGED <<variant, linked, key, last>>, NEW k \in Keys
  PROVE  Holding(k)' = Holding(k)
BY DEF Holding, Used

(* Every step but a store shrinks the table.                                *)
LEMMA ShrinkStep ==
  ASSUME IndInv, NEW p \in Threads, Invoke(p) \/ Work(p), variant' = variant, ~Store(p)
  PROVE  Shrinks /\ pc[p] # "store"
<1>0. TypeOK /\ Phase(p)
  BY DEF IndInv
<1>1. CASE UNCHANGED <<linked, key, last>> /\ pc[p] # "store"
  BY <1>1, HoldingSame DEF Shrinks
<1>2. CASE Invoke(p) \/ Return(p) \/ Lock(p) \/ Unlock(p) \/ clht_get(p) \/ Take(p)
  BY <1>1, <1>2 DEF Invoke, Return, Lock, Unlock, clht_get, LookVal, LookAgain, Take, table
<1>3. CASE bucket_exists(p)
  BY <1>1, <1>3 DEF bucket_exists, ReadLast, LookKey, table
<1>4. CASE clht_put(p) \/ SearchRemove(p)
  BY <1>1, <1>4 DEF clht_put, SearchPut, SearchOn, SearchEnds, SearchRemove, table
<1>5. CASE Block(p) \/ Free(p)
  <2>1. /\ UNCHANGED <<linked, last>> /\ variant = "lock_ins" /\ pc[p] # "store"
        /\ \/ UNCHANGED key
           \/ \E x \in {0, KEY_BLCK} : key' = [key EXCEPT ![b[p]][j[p]] = x]
    BY <1>5, <1>0 DEF Block, Free, Phase
  <2>2. 0 \notin Keys /\ KEY_BLCK \notin Keys
    BY KeysAssumption DEF KEY_BLCK
  <2>3. ASSUME NEW k \in Keys, NEW pl \in Places, key'[pl[1]][pl[2]] = k
        PROVE  key[pl[1]][pl[2]] = k
    <3>1. pl[1] \in Buckets /\ pl[2] \in Slots
      BY Bounds
    <3>2. CASE UNCHANGED key
      BY <2>3, <3>2
    <3>3. CASE ~UNCHANGED key
      <4>1. PICK x \in {0, KEY_BLCK} : key' = [key EXCEPT ![b[p]][j[p]] = x]
        BY <2>1, <3>3
      <4>2. key'[pl[1]][pl[2]] = IF pl[1] = b[p] /\ pl[2] = j[p] THEN x ELSE key[pl[1]][pl[2]]
        BY <3>1, <4>1, <1>0 DEF TypeOK
      <4> QED
        BY <4>2, <2>2, <2>3
    <3> QED
      BY <3>2, <3>3
  <2> QED
    BY <2>1, <2>3 DEF Shrinks, Holding, Used
<1> QED
  BY <1>2, <1>3, <1>4, <1>5 DEF Work, clht_remove

(* Fresh buckets stay as they are: a key that is blocked is in the chain.   *)
LEMMA FreshStays ==
  ASSUME IndInv, NEW p \in Threads, Invoke(p) \/ Work(p), variant' = variant, ~Store(p)
  PROVE  Fresh'
<1>0. TypeOK /\ Phase(p) /\ Fresh
  BY DEF IndInv
<1>1. Shrinks
  BY ShrinkStep
<1>2. CASE UNCHANGED key
  BY <1>0, <1>1, <1>2 DEF Fresh, Shrinks
<1>3. CASE Block(p) /\ ~UNCHANGED key
  <2>1. key' = [key EXCEPT ![b[p]][j[p]] = KEY_BLCK] /\ KeyAt(p) = call[p].key /\ pc[p] = "block"
    BY <1>3 DEF Block
  <2>2. call[p].key # 0 /\ b[p] \in Buckets /\ j[p] \in Slots
    BY <2>1, <1>0, CallTypes DEF Phase, TypeOK
  <2>3. b[p] \notin (linked + 1)..MaxBuckets
    BY <2>1, <2>2, <1>0 DEF Fresh, KeyAt
  <2>4. \A x \in (linked + 1)..MaxBuckets : x \in Buckets
    BY <1>0, SizesAssumption DEF TypeOK, Buckets
  <2>5. \A x \in (linked + 1)..MaxBuckets : key'[x] = key[x]
    BY <2>1, <2>3, <2>4, <1>0 DEF TypeOK
  <2> QED
    BY <2>5, <1>0, <1>1 DEF Fresh, Shrinks
<1>4. CASE Free(p)
  <2>1. key' = [key EXCEPT ![b[p]][j[p]] = 0]
    BY <1>4 DEF Free
  <2>2. \A x \in (linked + 1)..MaxBuckets : x \in Buckets
    BY <1>0, SizesAssumption DEF TypeOK, Buckets
  <2>3. \A x \in (linked + 1)..MaxBuckets, y \in Slots : key'[x][y] = 0
    BY <2>1, <2>2, <1>0 DEF TypeOK, Fresh
  <2> QED
    BY <2>3, <1>0, <1>1 DEF Fresh, Shrinks
<1>5. CASE Invoke(p) \/ Return(p) \/ Lock(p) \/ Unlock(p) \/ clht_get(p) \/ Take(p)
  BY <1>2, <1>5 DEF Invoke, Return, Lock, Unlock, clht_get, LookVal, LookAgain, Take, table
<1>6. CASE bucket_exists(p) \/ clht_put(p) \/ SearchRemove(p)
  BY <1>2, <1>6 DEF bucket_exists, ReadLast, LookKey, clht_put, SearchPut, SearchOn, SearchEnds,
                    SearchRemove, table
<1> QED
  BY <1>3, <1>4, <1>5, <1>6, <1>2 DEF Work, clht_remove

(* What the thread that has the lock knows stays true when others step.     *)
LEMMA OthersKnow ==
  ASSUME IndInv, NEW p \in Threads, Invoke(p) \/ Work(p), Shrinks, NEW q \in Threads, q # p
  PROVE  Searching(q)' /\ Storing(q)'
<1>1. Searching(q) /\ Storing(q) /\ Phase(q) /\ TypeOK
  BY DEF IndInv
<1>2. /\ pc'[q] = pc[q] /\ call'[q] = call[q] /\ b'[q] = b[q] /\ j'[q] = j[q]
      /\ empty'[q] = empty[q] /\ stores'[q] = stores[q]
  BY <1>1, OthersStay
<1>3. pc[q] \in {"search", "store"} => Holding(call[q].key)' \subseteq Holding(call[q].key)
  <2>1. pc[q] \in {"search", "store"} => call[q].key \in Keys
    BY <1>1, CallTypes DEF Phase
  <2> QED
    BY <2>1, <1>2 DEF Shrinks, Holding
<1>4. Searching(q)'
  BY <1>1, <1>2, <1>3 DEF Searching, Shrinks
<1>5. Storing(q)'
  BY <1>1, <1>2, <1>3 DEF Storing, Shrinks, FilledTo
<1> QED
  BY <1>4, <1>5

(* What a thread in a store is at stays the place it is at.                 *)
LEMMA HolesStay ==
  ASSUME IndInv, NEW p \in Threads, Invoke(p) \/ Work(p), Shrinks, pc[p] # "store"
  PROVE  /\ \A q \in Threads : stores[q] # << >> =>
              stores'[q] = stores[q] /\ empty'[q] = empty[q] /\ LastPlace(q)' = LastPlace(q)
         /\ NoHoles' /\ OneCopy'
<1>1. TypeOK /\ Phase(p) /\ NoHoles /\ OneCopy
  BY DEF IndInv
<1>2. stores[p] = << >>
  BY <1>1 DEF Phase
<1>3. ASSUME NEW q \in Threads, stores[q] # << >>
      PROVE  stores'[q] = stores[q] /\ empty'[q] = empty[q] /\ LastPlace(q)' = LastPlace(q)
  <2>1. q # p
    BY <1>2, <1>3
  <2>2. stores'[q] = stores[q] /\ empty'[q] = empty[q] /\ b'[q] = b[q]
    BY <2>1, <1>1, OthersStay
  <2>3. LastBucket(q)' = LastBucket(q)
    BY <2>2 DEF LastBucket, Shrinks
  <2> QED
    BY <2>2, <2>3 DEF LastPlace, Shrinks
<1>4. \A pl : Hole(pl) => Hole(pl)'
  <2>1. <<"unlast">> # << >> /\ <<"moveval", "movekey", "unlast">> # << >>
        /\ <<"movekey", "unlast">> # << >>
    OBVIOUS
  <2> QED
    BY <2>1, <1>3 DEF Hole
<1>5. NoHoles'
  BY <1>1, <1>4 DEF NoHoles, Shrinks, Used
<1>6. OneCopy'
  <2> SUFFICES ASSUME NEW k \in Keys, NEW pl \in Holding(k)', NEW other \in Holding(k)', pl # other
               PROVE  \E q \in Threads : stores'[q] = <<"unlast">> /\ LastPlace(q)' \in {pl, other}
    BY DEF OneCopy
  <2>1. <<"unlast">> # << >>
    OBVIOUS
  <2>2. pl \in Holding(k) /\ other \in Holding(k)
    BY DEF Shrinks
  <2>3. PICK q \in Threads : stores[q] = <<"unlast">> /\ LastPlace(q) \in {pl, other}
    BY <1>1, <2>2 DEF OneCopy
  <2> QED
    BY <1>3, <2>1, <2>3
<1> QED
  BY <1>3, <1>5, <1>6

(* The first store of a put is the link if its bucket is new.               *)
LEMMA PutsFirst ==
  ASSUME NEW f \in {TRUE, FALSE}, NEW s, s = PutStores(f)
  PROVE  Head(s) = (IF f THEN "link" ELSE "val")
         /\ s \notin {<<"val">>, <<"val", "last">>, <<"last">>}
<1>0. {"link", "key", "val", "last"} \subseteq StoreNames
  BY DEF StoreNames
<1>1. CASE f
  <2>1. s \in {<<"link", "key", "val", "last">>, <<"link", "key", "val">>, <<"link", "val", "key">>}
    BY <1>1 DEF PutStores
  <2>2. Head(s) = "link"
    BY <2>1, <1>0, Lists
  <2>3. s \notin {<<"val">>, <<"val", "last">>, <<"last">>}
    BY <2>1
  <2> QED
    BY <2>2, <2>3, <1>1
<1>2. CASE ~f
  <2>1. s \in {<<"val", "key", "last">>, <<"val", "key">>}
    BY <1>2 DEF PutStores
  <2> QED
    BY <2>1, <1>0, <1>2, Lists
<1> QED
  BY <1>1, <1>2

(* The thread that takes the lock or searches under it keeps to Searching,  *)
(* and what it has found when it begins to store is what Storing asks for.  *)
LEMMA SearchKnows ==
  ASSUME IndInv, NEW p \in Threads, Invoke(p) \/ Work(p), variant' = variant, ~Store(p)
  PROVE  Searching(p)' /\ Storing(p)'
<1>0. TypeOK /\ Phase(p) /\ Searching(p) /\ Fresh /\ Filled
  BY DEF IndInv
<1>1. Shrinks /\ pc[p] # "store"
  BY ShrinkStep
<1>2. /\ linked \in Nat /\ linked >= 1 /\ linked <= MaxBuckets /\ MaxBuckets \in Nat
      /\ b[p] \in Buckets /\ b[p] \in Nat /\ j[p] \in Nat /\ j[p] >= 1
      /\ \A x \in Buckets : last[x] \in 0..ENTRIES_PER_BUCKET /\ last[x] \in Nat
  BY <1>0, SizesAssumption DEF TypeOK, Buckets
<1>3. CASE Lock(p)
  <2>1. pc'[p] = "search" /\ b'[p] = 1 /\ j'[p] = 1 /\ pc[p] = "lock"
        /\ UNCHANGED <<linked, key, last, call, empty, stores>>
    BY <1>3, <1>0 DEF Lock, At, Goto, TypeOK
  <2>2. empty[p] = <<0, 0>> /\ call[p].key \in Keys
    BY <2>1, <1>0, CallTypes DEF Phase, Nowhere
  <2>3. Holding(call[p].key)' \subseteq Places
    BY DEF Holding
  <2>4. \A pl \in Places : pl[1] > 1 \/ (pl[1] = 1 /\ pl[2] >= 1)
    BY Bounds, SizesAssumption DEF Buckets, Slots
  <2>5. 1 <= linked /\ 1 <= last[1] + 1 /\ empty[p][1] <= linked
    BY <1>2, <2>2, Bounds
  <2>6. Searching(p)'
    BY <2>1, <2>2, <2>3, <2>4, <2>5, <1>2 DEF Searching, Nowhere
  <2> QED
    BY <2>1, <2>6 DEF Storing
<1>4. CASE SearchPut(p)
  <2>1. /\ pc[p] = "search" /\ call[p].op = "put" /\ call[p] \in Calls
        /\ j[p] <= Limit(p) /\ UNCHANGED <<linked, key, last, call, b, stores>>
    BY <1>4, <1>0 DEF SearchPut, Phase, table
  <2>2. CASE pc'[p] = "unlock"
    BY <2>2 DEF Searching, Storing
  <2>3. CASE pc'[p] # "unlock"
    <3>1. /\ KeyAt(p) # call[p].key /\ UNCHANGED pc /\ j'[p] = j[p] + 1
          /\ empty'[p] = IF empty[p] = Nowhere /\ KeyAt(p) = 0 THEN <<b[p], j[p]>> ELSE empty[p]
      BY <1>4, <2>3, <1>0 DEF SearchPut, Goto, TypeOK
    <3>2. variant = "packed" => KeyAt(p) # 0
      <4> SUFFICES ASSUME variant = "packed" PROVE KeyAt(p) \in Keys
        BY KeysAssumption
      <4>1. <<b[p], j[p]>> \in Places
        BY <2>1, <1>0, SearchPlace
      <4>2. Used(b[p], j[p])
        BY <2>1, <1>0 DEF Searching, Used, Limit
      <4>3. KeyAt(p) \in Keys \/ Hole(<<b[p], j[p]>>)
        BY <4>1, <4>2 DEF IndInv, NoHoles, KeyAt
      <4>4. ASSUME NEW q \in Threads PROVE stores[q] = << >>
        <5>1. pc[q] # "store"
          BY <2>1, <1>0, Holder
        <5> QED
          BY <5>1 DEF IndInv, Phase
      <4>5. ~Hole(<<b[p], j[p]>>)
        <5>1. /\ <<"moveval", "movekey", "unlast">> # << >>
              /\ <<"movekey", "unlast">> # << >> /\ <<"unlast">> # << >>
          OBVIOUS
        <5> QED
          BY <4>4, <5>1 DEF Hole
      <4> QED
        BY <4>3, <4>5
    <3>3. call[p].key \in Keys /\ Holding(call[p].key)' = Holding(call[p].key)
      BY <2>1, <1>1, CallTypes, HoldingSame DEF Shrinks
    <3>4. \A pl \in Holding(call[p].key) : pl # <<b[p], j[p]>>
      BY <3>1 DEF Holding, KeyAt
    <3>5. ASSUME NEW pl \in Holding(call[p].key)
          PROVE  pl[1] > b[p] \/ (pl[1] = b[p] /\ pl[2] >= j[p] + 1)
      <4>1. pl[1] > b[p] \/ (pl[1] = b[p] /\ pl[2] >= j[p])
        BY <3>5, <2>1, <1>0 DEF Searching
      <4>2. pl = <<pl[1], pl[2]>> /\ pl[1] \in Nat /\ pl[2] \in Nat
        BY Bounds DEF Holding
      <4>3. ~(pl[1] = b[p] /\ pl[2] = j[p])
        BY <3>4, <4>2
      <4> QED
        BY <4>1, <4>2, <4>3, <1>2
    <3>6. variant = "packed" => j[p] + 1 <= last[b[p]] + 1
      BY <2>1, <1>2 DEF Limit
    <3>7. empty'[p][1] <= linked
      BY <3>1, <2>1, <1>0, <1>2 DEF Searching
    <3> QED
      BY <3>1, <3>2, <3>3, <3>5, <3>6, <3>7, <2>1, <1>0, <1>1 DEF Searching, Storing, Shrinks
  <2> QED
    BY <2>2, <2>3
<1>5. CASE SearchOn(p)
  <2>1. /\ pc[p] = "search" /\ pc'[p] = "search" /\ call[p] \in Calls
        /\ j[p] > Limit(p) /\ Full(p) /\ b[p] < linked /\ b'[p] = b[p] + 1 /\ j'[p] = 1
        /\ UNCHANGED <<linked, key, last, call, empty, stores>>
    BY <1>5, <1>0 DEF SearchOn, Phase, At, TypeOK, table
  <2>2. call[p].key \in Keys /\ Holding(call[p].key)' = Holding(call[p].key)
    BY <2>1, <1>1, CallTypes, HoldingSame DEF Shrinks
  <2>3. ASSUME call[p].op = "put", NEW pl \in Holding(call[p].key)
        PROVE  pl[1] > b[p] + 1 \/ (pl[1] = b[p] + 1 /\ pl[2] >= 1)
    <3>1. pl[1] > b[p] \/ (pl[1] = b[p] /\ pl[2] >= j[p])
      BY <2>3, <2>1, <1>0 DEF Searching
    <3>2. pl[1] \in Nat /\ pl[2] \in Nat /\ pl[2] >= 1 /\ pl[2] <= ENTRIES_PER_BUCKET
          /\ (variant = "packed" => pl[2] <= last[pl[1]])
      BY Bounds, SizesAssumption DEF Holding, Used, Slots
    <3>3. pl[1] # b[p]
      BY <3>1, <3>2, <2>1, <1>2, SizesAssumption DEF Limit
    <3> QED
      BY <3>1, <3>2, <3>3, <1>2
  <2>4. variant = "packed" /\ call[p].op = "put" =>
          \A x \in 1..((b[p] + 1) - 1) : last[x] = ENTRIES_PER_BUCKET
    BY <2>1, <1>0, <1>2 DEF Searching, Full
  <2>5. b[p] + 1 <= linked
    BY <2>1, <1>2
  <2>6. variant = "packed" => 1 <= last[b[p] + 1] + 1
    <3>1. b[p] + 1 \in Buckets
      BY <2>5, <1>2 DEF Buckets
    <3> QED
      BY <3>1, <1>2
  <2> QED
    BY <2>1, <2>2, <2>3, <2>4, <2>5, <2>6, <1>0, <1>1 DEF Searching, Storing, Shrinks
<1>6. CASE SearchEnds(p)
  <2> DEFINE free == IF variant = "packed" /\ ~Full(p) THEN <<b[p], j[p]>> ELSE empty[p]
  <2>1. /\ pc[p] = "search" /\ call[p] \in Calls /\ call[p].op \in {"put", "remove"}
        /\ j[p] > Limit(p) /\ ~(Full(p) /\ b[p] < linked) /\ b[p] <= linked
        /\ UNCHANGED <<linked, key, last, call, b, j>>
    BY <1>6, <1>0 DEF SearchEnds, Phase, Searching, table
  <2>2. CASE call[p].op = "remove"
    <3>1. pc'[p] = "unlock"
      BY <1>6, <2>2, <1>0 DEF SearchEnds, Goto, TypeOK
    <3> QED
      BY <3>1 DEF Searching, Storing
  <2>3. CASE call[p].op = "put"
    <3>1. /\ pc'[p] = "store" /\ stores'[p] = PutStores(free = Nowhere)
          /\ empty'[p] = IF free = Nowhere THEN <<linked + 1, 1>> ELSE free
          /\ free = Nowhere => linked < MaxBuckets
      BY <1>6, <2>1, <2>3, <1>0 DEF SearchEnds, Goto, TypeOK
    <3>2. PICK e \in 1..linked : variant = "packed" => FilledTo(e)
      BY <1>0, <1>2 DEF Filled
    <3>3. e \in Nat
      BY <1>2
    <3>4. variant = "packed" /\ ~Full(p) => b[p] >= e
      BY <3>2, <3>3, <1>2 DEF FilledTo, Full, Buckets
    <3>5. ASSUME NEW pl \in Holding(call[p].key) PROVE FALSE
      <4>1. pl[1] > b[p] \/ (pl[1] = b[p] /\ pl[2] >= j[p])
        BY <3>5, <2>1, <2>3, <1>0 DEF Searching
      <4>2. /\ pl[1] \in Nat /\ pl[2] \in Nat /\ pl[2] >= 1 /\ pl[2] <= ENTRIES_PER_BUCKET
            /\ pl[1] <= linked /\ (variant = "packed" => pl[2] <= last[pl[1]])
        BY Bounds, SizesAssumption DEF Holding, Used, Slots
      <4>3. pl[1] # b[p]
        BY <4>1, <4>2, <2>1, <1>2, SizesAssumption DEF Limit
      <4>4. variant = "packed" /\ ~Full(p)
        BY <4>1, <4>2, <4>3, <2>1, <1>2 DEF Full
      <4>5. pl[1] \in (e + 1)..MaxBuckets
        BY <3>3, <3>4, <4>1, <4>2, <4>3, <4>4, <1>2
      <4> QED
        BY <4>2, <4>4, <4>5, <3>2 DEF FilledTo
    <3>6. Holding(call[p].key)' = {}
      <4>1. call[p].key \in Keys
        BY <2>1, CallTypes
      <4> QED
        BY <4>1, <3>5, <2>1, <1>1, HoldingSame DEF Shrinks
    <3>7. stores'[p] \notin {<<"val">>, <<"val", "last">>, <<"last">>}
          /\ (Head(stores'[p]) = "link" <=> free = Nowhere)
      BY <3>1, PutsFirst
    <3>8. CASE free = Nowhere
      <4>1. empty'[p] = <<linked + 1, 1>> /\ linked < MaxBuckets
        BY <3>1, <3>8
      <4>2. linked + 1 \in Buckets /\ linked + 1 \in (linked + 1)..MaxBuckets
        BY <4>1, <1>2 DEF Buckets
      <4>3. empty'[p] \in Places
        BY <4>1, <4>2, Bounds
      <4>4. variant = "packed" => Full(p) /\ b[p] = linked
        <5>1. <<b[p], j[p]>> # Nowhere
          BY <1>2 DEF Nowhere
        <5> QED
          BY <5>1, <3>8, <2>1, <1>2
      <4>5. variant = "packed" => last[linked + 1] = 0 /\ FilledTo(linked + 1)
        <5> SUFFICES ASSUME variant = "packed" PROVE last[linked + 1] = 0 /\ FilledTo(linked + 1)
          OBVIOUS
        <5>1. last[linked + 1] = 0
          BY <4>2, <1>0 DEF Fresh
        <5>2. \A x \in ((linked + 1) + 1)..MaxBuckets : last[x] = 0
          BY <1>0, <1>2 DEF Fresh
        <5>3. \A x \in 1..((linked + 1) - 1) : last[x] = ENTRIES_PER_BUCKET
          BY <4>4, <2>1, <2>3, <1>0, <1>2 DEF Searching, Full
        <5> QED
          BY <5>1, <5>2, <5>3 DEF FilledTo
      <4>6. empty'[p][1] = linked + 1 /\ empty'[p][2] = 1
        BY <4>1
      <4>7. Storing(p)'
        BY <2>1, <2>3, <3>1, <3>6, <3>7, <3>8, <4>1, <4>3, <4>5, <4>6, <1>1
           DEF Storing, Shrinks, FilledTo
      <4> QED
        BY <4>7, <3>1 DEF Searching
    <3>9. CASE free # Nowhere
      <4>1. empty'[p] = free
        BY <3>1, <3>9
      <4>2. variant = "packed" => free = <<b[p], j[p]>> /\ ~Full(p)
        BY <3>9, <2>1, <1>0 DEF Searching
      <4>3. CASE variant # "packed"
        <5>1. free = empty[p]
          BY <4>3
        <5>2. free \in Places /\ free[1] <= linked
          BY <5>1, <3>9, <2>1, <1>0 DEF Searching, TypeOK
        <5>3. Storing(p)'
          BY <2>1, <2>3, <3>1, <3>6, <3>7, <3>9, <4>1, <4>3, <5>2, <1>1 DEF Storing, Shrinks
        <5> QED
          BY <5>3, <3>1 DEF Searching
      <4>4. CASE variant = "packed"
        <5>1. free \in Places /\ j[p] = last[b[p]] + 1
          BY <4>2, <4>4, <2>1, <1>0, FreePlace
        <5>2. free[1] = b[p] /\ free[2] = j[p]
          BY <4>2, <4>4
        <5>3. FilledTo(b[p])
          <6>1. \A x \in 1..(b[p] - 1) : last[x] = ENTRIES_PER_BUCKET
            BY <2>1, <2>3, <4>4, <1>0 DEF Searching
          <6>2. \A x \in (b[p] + 1)..MaxBuckets : last[x] = 0
            BY <3>2, <3>3, <3>4, <4>2, <4>4, <1>2 DEF FilledTo
          <6> QED
            BY <6>1, <6>2 DEF FilledTo
        <5>4. Storing(p)'
          BY <2>1, <2>3, <3>1, <3>6, <3>7, <3>9, <4>1, <4>4, <5>1, <5>2, <5>3, <1>1
             DEF Storing, Shrinks, FilledTo
        <5> QED
          BY <5>4, <3>1 DEF Searching
      <4> QED
        BY <4>3, <4>4
    <3> QED
      BY <3>8, <3>9
  <2> QED
    BY <2>1, <2>2, <2>3
<1>7. CASE SearchRemove(p)
  <2>1. /\ pc[p] = "search" /\ call[p].op = "remove" /\ call[p] \in Calls /\ b[p] <= linked
        /\ j[p] <= Limit(p) /\ UNCHANGED <<linked, key, last, call, b>>
    BY <1>7, <1>0 DEF SearchRemove, Phase, Searching, table
  <2>2. CASE KeyAt(p) # call[p].key
    <3>1. UNCHANGED <<pc, empty>> /\ j'[p] = j[p] + 1
      BY <1>7, <2>2, <1>0 DEF SearchRemove, TypeOK
    <3>2. variant = "packed" => j[p] + 1 <= last[b[p]] + 1
      BY <2>1, <1>2 DEF Limit
    <3> QED
      BY <3>1, <3>2, <2>1, <1>0, <1>1 DEF Searching, Storing, Shrinks
  <2>3. CASE KeyAt(p) = call[p].key
    <3>1. /\ pc'[p] = "store" /\ empty'[p] = <<b[p], j[p]>> /\ UNCHANGED j
          /\ stores'[p] = IF variant = "packed" THEN <<"clear", "moveval", "movekey", "unlast">>
                                               ELSE <<"clear">>
      BY <1>7, <2>3, <1>0 DEF SearchRemove, Goto, TypeOK
    <3>2. Head(stores'[p]) = "clear"
      <4>1. {"clear", "moveval", "movekey", "unlast"} \subseteq StoreNames
        BY DEF StoreNames
      <4> QED
        BY <3>1, <4>1, Lists
    <3>3. <<b[p], j[p]>> \in Places /\ (variant = "packed" => j[p] <= last[b[p]])
      BY <2>1, <1>0, SearchPlace DEF Limit
    <3>4. Storing(p)'
      BY <2>1, <3>1, <3>2, <3>3, <1>1 DEF Storing, Shrinks
    <3> QED
      BY <3>4, <3>1 DEF Searching
  <2> QED
    BY <2>2, <2>3
<1>8. CASE Invoke(p) \/ Return(p) \/ Unlock(p) \/ clht_get(p) \/ bucket_exists(p)
           \/ Block(p) \/ Take(p) \/ Free(p)
  <2>1. pc'[p] \notin {"search", "store"}
    <3>1. CASE Invoke(p) \/ Return(p) \/ Unlock(p) \/ clht_get(p)
      BY <3>1, <1>0 DEF Invoke, Begin, Return, Unlock, clht_get, LookVal, LookAgain, Goto, TypeOK
    <3>2. CASE bucket_exists(p)
      BY <3>2, <1>0 DEF bucket_exists, ReadLast, LookKey, Found, Advance, Missing, Goto, TypeOK
    <3>3. CASE Block(p) \/ Take(p) \/ Free(p)
      BY <3>3, <1>0 DEF Block, Take, Free, Goto, TypeOK
    <3> QED
      BY <3>1, <3>2, <3>3, <1>8
  <2> QED
    BY <2>1 DEF Searching, Storing
<1> QED
  BY <1>3, <1>4, <1>5, <1>6, <1>7, <1>8 DEF Work, clht_put, clht_remove

-----------------------------------------------------------------------------
(* While a thread does its stores no other has the lock.                    *)
LEMMA Alone ==
  ASSUME IndInv, NEW p \in Threads, Store(p), NEW q \in Threads, q # p
  PROVE  stores[q] = << >> /\ stores'[q] = << >> /\ Searching(q)' /\ Storing(q)'
<1>1. TypeOK /\ Phase(q) /\ pc[p] = "store"
  BY DEF IndInv, Store
<1>2. pc[q] \notin {"search", "store"}
  BY <1>1, Holder
<1>3. pc'[q] = pc[q] /\ stores'[q] = stores[q]
  BY <1>1, OthersStay DEF Work
<1> QED
  BY <1>1, <1>2, <1>3 DEF Phase, Searching, Storing

(* Before a remove has cleared its place there are no holes, and no key is  *)
(* in two places.                                                           *)
Moves == {<<"moveval", "movekey", "unlast">>, <<"movekey", "unlast">>, <<"unlast">>}
(* Outside the moves of a packed remove no key is twice.                    *)
LEMMA Whole ==
  ASSUME IndInv, NEW p \in Threads, Store(p), stores[p] \notin Moves
  PROVE  /\ variant = "packed" =>
              \A pl \in Places : Used(pl[1], pl[2]) => key[pl[1]][pl[2]] \in Keys
         /\ \A k \in Keys : \A pl, other \in Holding(k) : pl = other
<1>1. \A q \in Threads : stores[q] \notin Moves
  <2>1. << >> \notin Moves
    BY DEF Moves
  <2> QED
    BY <2>1, Alone
<1>2. NoHoles /\ OneCopy
  BY DEF IndInv
<1> QED
  BY <1>1, <1>2 DEF NoHoles, OneCopy, Hole, Moves

(* What a store changes, place by place.                                    *)
LEMMA StorePlaces ==
  ASSUME IndInv, NEW p \in Threads, Store(p)
  PROVE  LET s == Head(stores[p])
             x == empty[p][1]
             y == empty[p][2]
         IN  /\ \A z \in Buckets, w \in Slots : <<z, w>> # empty[p] => key'[z][w] = key[z][w]
             /\ key'[x][y] = KeyStored(p, s)
             /\ s \in {"link", "val", "last", "moveval", "unlast"} => key' = key
             /\ s # "link" => linked' = linked
             /\ s \notin {"last", "unlast"} => last' = last
             /\ stores'[p] = Tail(stores[p])
             /\ pc'[p] = IF Tail(stores[p]) = << >> THEN "unlock" ELSE "store"
             /\ UNCHANGED <<call, b, j, empty>>
<1> DEFINE s == Head(stores[p])
           x == empty[p][1]
           y == empty[p][2]
<1>0. TypeOK
  BY DEF IndInv
<1>1. /\ StoreAt(p, s) /\ pc[p] = "store" /\ empty[p] = <<x, y>> /\ x \in Buckets /\ y \in Slots
      /\ Rest(stores[p], StoresLeft(p)) /\ stores[p] \in StoresLeft(p)
  BY StoreEffect
<1>2. \A S : Rest(stores[p], S) => (Len(stores[p]) = 1 => Tail(stores[p]) = << >>)
  BY DEF Rest
<1>3. Len(stores[p]) # 1 => Tail(stores[p]) # << >>
  <2>1. << >> \notin StoresLeft(p)
    BY DEF StoresLeft, PutsAhead, KeyAhead, Removing
  <2> QED
    BY <2>1, <1>1 DEF Rest
<1>4. key \in [Buckets -> [Slots -> Keys \cup {0, KEY_BLCK}]]
  BY <1>0 DEF TypeOK
<1>5. s \in {"link", "val", "last", "moveval", "unlast"} => KeyStored(p, s) = key[x][y]
  BY DEF KeyStored
<1>6. s \in {"link", "val", "last", "moveval", "unlast"} => key' = key
  BY <1>1, <1>4, <1>5 DEF StoreAt
<1>7. \A z \in Buckets, w \in Slots : <<z, w>> # empty[p] => key'[z][w] = key[z][w]
  BY <1>1, <1>4 DEF StoreAt
<1>8. key'[x][y] = KeyStored(p, s)
  BY <1>1, <1>4 DEF StoreAt
<1>9. /\ s # "link" => linked' = linked
      /\ s \notin {"last", "unlast"} => last' = last
      /\ stores'[p] = Tail(stores[p])
      /\ pc'[p] = IF Len(stores[p]) = 1 THEN "unlock" ELSE "store"
      /\ UNCHANGED <<call, b, j, empty>>
  BY <1>0, <1>1 DEF StoreAt, TypeOK
<1> QED
  BY <1>1, <1>2, <1>3, <1>6, <1>7, <1>8, <1>9

(* What the steps below are to keep.                                        *)
Kept(p) == Fresh /\ Filled /\ NoHoles /\ OneCopy /\ Storing(p)

(* A new bucket is linked: its places are free.                             *)
LEMMA StoreLink ==
  ASSUME IndInv, NEW p \in Threads, Store(p), variant' = variant, Head(stores[p]) = "link"
  PROVE  Kept(p)'
<1>0. TypeOK /\ Fresh /\ Filled /\ Storing(p) /\ pc[p] = "store" /\ call[p].key \in Keys
  BY StoreEffect DEF IndInv
<1>1. /\ call[p].op = "put" /\ empty[p] = <<linked + 1, 1>> /\ linked + 1 \in Buckets
  <2>1. empty[p] = <<linked + 1, 1>> /\ empty[p][1] \in Buckets
    BY <1>0, StoreEffect DEF Storing
  <2>2. empty[p][1] = linked + 1
    BY <2>1
  <2> QED
    BY <2>1, <2>2, StoreOfPut
<1>2. /\ stores[p] \in {<<"link", "key", "val">>, <<"link", "val", "key">>,
                        <<"link", "key", "val", "last">>}
      /\ Tail(stores[p]) \in {<<"key", "val">>, <<"val", "key">>, <<"key", "val", "last">>}
  BY StoreEffect DEF First
<1>3. /\ key' = key /\ last' = last /\ linked' = linked + 1 /\ stores'[p] = Tail(stores[p])
      /\ pc'[p] = "store" /\ UNCHANGED <<call, b, j, empty>>
  <2>1. StoreAt(p, "link")
    BY StoreEffect
  <2>2. linked' = linked + 1
    BY <2>1 DEF StoreAt
  <2>3. Tail(stores[p]) # << >>
    BY <1>2
  <2> QED
    BY <2>2, <2>3, StorePlaces
<1>4. linked \in Nat /\ linked <= MaxBuckets /\ MaxBuckets \in Nat
  BY <1>0, SizesAssumption DEF TypeOK, Buckets
<1>5. \A pl \in Places : (Used(pl[1], pl[2])' /\ key[pl[1]][pl[2]] \in Keys) => Used(pl[1], pl[2])
  <2> SUFFICES ASSUME NEW pl \in Places, Used(pl[1], pl[2])', key[pl[1]][pl[2]] \in Keys
               PROVE  pl[1] <= linked
    BY <1>3 DEF Used
  <2>1. pl[1] \in Nat /\ pl[2] \in Slots /\ pl[1] <= linked + 1
    BY <1>3, Bounds DEF Used
  <2>2. ASSUME pl[1] = linked + 1 PROVE FALSE
    BY <2>1, <2>2, <1>0, <1>1, <1>4, KeysAssumption DEF Fresh, Buckets
  <2> QED
    BY <2>1, <2>2, <1>4
<1>6. \A k \in Keys : Holding(k)' \subseteq Holding(k)
  BY <1>3, <1>5 DEF Holding
<1>7. Fresh'
  BY <1>0, <1>3, <1>4 DEF Fresh
<1>8. Filled'
  BY <1>0, <1>3, <1>4 DEF Filled, FilledTo
<1>9. stores[p] \notin Moves
  BY <1>2 DEF Moves
<1>10. NoHoles'
  <2>1. ASSUME variant = "packed", NEW pl \in Places, Used(pl[1], pl[2])'
        PROVE  Used(pl[1], pl[2])
    <3>1. pl[1] \in Nat /\ pl[2] \in Slots /\ pl[1] <= linked + 1 /\ pl[2] <= last[pl[1]]
      BY <2>1, <1>3, Bounds DEF Used
    <3>2. pl[1] # linked + 1
      BY <3>1, <1>0, <1>1, <1>4, SizesAssumption DEF Fresh, Buckets, Slots
    <3> QED
      BY <3>1, <3>2, <1>4 DEF Used
  <2> QED
    BY <2>1, <1>3, <1>9, Whole DEF NoHoles
<1>11. OneCopy'
  BY <1>6, <1>9, Whole DEF OneCopy
<1>12. Storing(p)'
  <2>1. empty[p][1] = linked + 1 /\ empty[p][2] = 1 /\ empty[p] \in Places
    BY <1>1, StoreEffect
  <2>2. Holding(call[p].key)' = {}
    <3>1. Holding(call[p].key) = {}
      BY <1>0, <1>1, <1>2 DEF Storing
    <3> QED
      BY <3>1, <1>0, <1>3, <1>6
  <2>3. Head(stores'[p]) \in {"key", "val"}
        /\ stores'[p] \notin {<<"val">>, <<"val", "last">>, <<"last">>}
    <3>1. {"link", "key", "val", "last"} \subseteq StoreNames
      BY DEF StoreNames
    <3>2. stores'[p] \in {<<"key", "val">>, <<"val", "key">>, <<"key", "val", "last">>}
      BY <1>2, <1>3
    <3>3. stores'[p] \notin {<<"val">>, <<"val", "last">>, <<"last">>}
      BY <3>2
    <3>4. Head(stores'[p]) \in {"key", "val"}
      BY <3>1, <3>2, Lists
    <3> QED
      BY <3>3, <3>4
  <2>4. variant = "packed" => empty[p][2] = last[empty[p][1]] + 1 /\ FilledTo(empty[p][1])
    BY <1>0, <1>1 DEF Storing
  <2>5. FilledTo(empty[p][1])' = FilledTo(empty[p][1])
    BY <1>3 DEF FilledTo
  <2>6. Head(stores'[p]) # "link" /\ call'[p].op = "put" /\ empty'[p] = empty[p]
        /\ linked' = linked + 1
    BY <1>1, <1>3, <2>3
  <2>7. empty'[p] \in Places /\ empty'[p][1] <= linked'
    BY <1>4, <2>1, <2>6
  <2>8. variant' = "packed" => empty'[p][2] = last'[empty'[p][1]] + 1 /\ FilledTo(empty[p][1])'
    BY <1>3, <2>4, <2>5, <2>6
  <2> QED
    BY <2>2, <2>3, <2>6, <2>7, <2>8 DEF Storing
<1> QED
  BY <1>7, <1>8, <1>10, <1>11, <1>12 DEF Kept

(* The value is written: no key and no place changes.                       *)
LEMMA StoreVal ==
  ASSUME IndInv, NEW p \in Threads, Store(p), variant' = variant, Head(stores[p]) = "val"
  PROVE  Kept(p)'
<1>0. /\ TypeOK /\ Fresh /\ Filled /\ Storing(p) /\ pc[p] = "store" /\ call[p].key \in Keys
      /\ empty[p] \in Places /\ call[p].op = "put"
  BY StoreEffect, StoreOfPut DEF IndInv
<1>1. stores[p] \in {<<"val", "key">>, <<"val">>, <<"val", "key", "last">>, <<"val", "last">>}
      /\ Tail(stores[p]) \in {<<"key">>, << >>, <<"key", "last">>, <<"last">>}
  BY StoreEffect DEF First
<1>2. /\ key' = key /\ last' = last /\ linked' = linked /\ stores'[p] = Tail(stores[p])
      /\ pc'[p] = IF Tail(stores[p]) = << >> THEN "unlock" ELSE "store"
      /\ UNCHANGED <<call, b, j, empty>>
  BY StorePlaces
<1>3. \A k \in Keys : Holding(k)' = Holding(k)
  BY <1>2, HoldingSame
<1>4. stores[p] \notin Moves
  BY <1>1 DEF Moves
<1>5. Fresh' /\ Filled'
  BY <1>0, <1>2 DEF Fresh, Filled, FilledTo
<1>6. NoHoles'
  BY <1>2, <1>4, Whole DEF NoHoles, Used
<1>7. OneCopy'
  BY <1>3, <1>4, Whole DEF OneCopy
<1>8. Storing(p)'
  <2>1. CASE stores[p] = <<"val">>
    <3>1. "val" \in StoreNames
      BY DEF StoreNames
    <3>2. Tail(stores[p]) = << >>
      BY <2>1, <3>1, Lists
    <3> QED
      BY <1>2, <3>2 DEF Storing
  <2>2. CASE stores[p] # <<"val">>
    <3>1. Holding(call[p].key)' = {}
      BY <2>2, <1>0, <1>2, <1>3 DEF Storing
    <3>2. Head(stores'[p]) # "link" \/ pc'[p] = "unlock"
      <4>1. {"key", "last"} \subseteq StoreNames
        BY DEF StoreNames
      <4>2. /\ Head(<<"key">>) = "key" /\ Head(<<"last">>) = "last"
            /\ Head(<<"key", "last">>) = "key"
        BY <4>1, Lists
      <4> QED
        BY <1>1, <1>2, <4>2
    <3>3. empty[p][1] <= linked
      BY <1>0 DEF Storing
    <3>4. stores'[p] = <<"last">> => stores[p] = <<"val", "last">>
      <4>1. {"val", "key", "last"} \subseteq StoreNames
        BY DEF StoreNames
      <4>2. Tail(<<"val", "key">>) = <<"key">> /\ Tail(<<"val", "key", "last">>) = <<"key", "last">>
        BY <4>1, Lists
      <4>3. <<"key">> # <<"last">> /\ <<"key", "last">> # <<"last">>
        OBVIOUS
      <4> QED
        BY <1>1, <1>2, <2>2, <4>2, <4>3
    <3>5. variant = "packed" =>
            /\ empty[p][2] = last[empty[p][1]] + 1 /\ FilledTo(empty[p][1])
            /\ stores'[p] = <<"last">> => key[empty[p][1]][empty[p][2]] = call[p].key
      BY <1>0, <3>4 DEF Storing
    <3>6. FilledTo(empty[p][1])' = FilledTo(empty[p][1])
      BY <1>2 DEF FilledTo
    <3>7. stores'[p] # <<"val", "last">>
      BY <1>1, <1>2
    <3>8. /\ empty'[p] \in Places /\ empty'[p][1] <= linked' /\ call'[p].op = "put"
          /\ stores'[p] # <<"val">>
      <4>1. stores'[p] # <<"val">>
        <5>1. <<"key">> # <<"val">> /\ <<"key", "last">> # <<"val">> /\ <<"last">> # <<"val">>
          OBVIOUS
        <5>2. << >> # <<"val">> /\ <<"val", "last">> # <<"val">>
          OBVIOUS
        <5> QED
          BY <1>1, <1>2, <5>1, <5>2
      <4> QED
        BY <4>1, <1>0, <1>2, <3>3
    <3>9. variant' = "packed" =>
            /\ empty'[p][2] = last'[empty'[p][1]] + 1 /\ FilledTo(empty[p][1])'
            /\ stores'[p] \in {<<"val", "last">>, <<"last">>} =>
                 key'[empty'[p][1]][empty'[p][2]] = call'[p].key
      BY <1>2, <3>5, <3>6, <3>7
    <3> QED
      BY <3>1, <3>2, <3>8, <3>9 DEF Storing
  <2> QED
    BY <2>1, <2>2
<1> QED
  BY <1>5, <1>6, <1>7, <1>8 DEF Kept

(* The key is written: it was nowhere, and in a packed chain the place does *)
(* not count yet.                                                           *)
LEMMA StoreKey ==
  ASSUME IndInv, NEW p \in Threads, Store(p), variant' = variant, Head(stores[p]) = "key"
  PROVE  Kept(p)'
<1> DEFINE x == empty[p][1]
           y == empty[p][2]
<1>0. /\ TypeOK /\ Fresh /\ Filled /\ Storing(p) /\ pc[p] = "store" /\ call[p].key \in Keys
      /\ empty[p] \in Places /\ empty[p] = <<x, y>> /\ x \in Buckets /\ y \in Slots
      /\ call[p].op = "put" /\ x \in Nat /\ linked \in Nat
  BY StoreEffect, StoreOfPut, Bounds DEF IndInv, TypeOK
<1>1. stores[p] \in {<<"key", "val">>, <<"key">>, <<"key", "val", "last">>, <<"key", "last">>}
      /\ Tail(stores[p]) \in {<<"val">>, << >>, <<"val", "last">>, <<"last">>}
  BY StoreEffect DEF First
<1>2. /\ last' = last /\ linked' = linked /\ stores'[p] = Tail(stores[p])
      /\ pc'[p] = IF Tail(stores[p]) = << >> THEN "unlock" ELSE "store"
      /\ UNCHANGED <<call, b, j, empty>>
      /\ \A z \in Buckets, w \in Slots : <<z, w>> # empty[p] => key'[z][w] = key[z][w]
      /\ key'[x][y] = KeyStored(p, "key")
  BY StorePlaces
<1>3. key'[x][y] = call[p].key
  BY <1>2 DEF KeyStored
<1>4. stores[p] \notin Moves /\ stores[p] # <<"val">>
  BY <1>1 DEF Moves
<1>5. x <= linked /\ Holding(call[p].key) = {}
      /\ (variant = "packed" => y = last[x] + 1 /\ FilledTo(x))
  BY <1>0, <1>4 DEF Storing
<1>6. \A pl \in Places : pl # empty[p] => key'[pl[1]][pl[2]] = key[pl[1]][pl[2]]
  BY <1>0, <1>2, Bounds
<1>7. variant = "packed" => ~Used(x, y)
  <2>1. last[x] \in Nat
    BY <1>0, SizesAssumption DEF TypeOK
  <2> QED
    BY <1>5, <2>1 DEF Used
<1>8. Fresh'
  <2>1. \A z \in (linked + 1)..MaxBuckets : z \in Buckets /\ z # x
    BY <1>0, <1>5, SizesAssumption DEF Buckets
  <2>2. \A z \in (linked + 1)..MaxBuckets, w \in Slots : key'[z][w] = 0
    <3> SUFFICES ASSUME NEW z \in (linked + 1)..MaxBuckets, NEW w \in Slots
                 PROVE  key'[z][w] = 0
      OBVIOUS
    <3>1. <<z, w>> # empty[p]
      BY <2>1, <1>0
    <3> QED
      BY <2>1, <3>1, <1>0, <1>2 DEF Fresh
  <2> QED
    BY <2>2, <1>0, <1>2 DEF Fresh
<1>9. Filled'
  BY <1>0, <1>2 DEF Filled, FilledTo
<1>10. variant = "packed" => \A pl \in Places : Used(pl[1], pl[2]) => pl # empty[p]
  BY <1>0, <1>7
<1>11. NoHoles'
  BY <1>2, <1>4, <1>6, <1>10, Whole DEF NoHoles, Used
<1>12. \A k \in Keys : Holding(k)' \subseteq Holding(k)
                       \/ (variant # "packed" /\ k = call[p].key /\ Holding(k)' \subseteq {empty[p]})
  <2> SUFFICES ASSUME NEW k \in Keys
               PROVE  \/ Holding(k)' \subseteq Holding(k)
                      \/ variant # "packed" /\ k = call[p].key /\ Holding(k)' \subseteq {empty[p]}
    OBVIOUS
  <2>1. \A pl \in Holding(k)' : pl # empty[p] => pl \in Holding(k)
    BY <1>2, <1>6 DEF Holding, Used
  <2>2. CASE variant = "packed"
    <3>1. empty[p] \notin Holding(k)'
      BY <2>2, <1>0, <1>2, <1>7 DEF Holding, Used
    <3> QED
      BY <2>1, <3>1
  <2>3. CASE variant # "packed" /\ k = call[p].key
    BY <2>1, <2>3, <1>5
  <2>4. CASE variant # "packed" /\ k # call[p].key
    <3>1. empty[p] \notin Holding(k)'
      BY <2>4, <1>0, <1>2, <1>3 DEF Holding
    <3> QED
      BY <2>1, <3>1
  <2> QED
    BY <2>2, <2>3, <2>4
<1>13. OneCopy'
  BY <1>4, <1>12, Whole DEF OneCopy
<1>14. Storing(p)'
  <2>1. CASE pc'[p] = "unlock"
    BY <2>1 DEF Storing
  <2>2. CASE pc'[p] # "unlock"
    <3>1. stores'[p] \in {<<"val">>, <<"val", "last">>, <<"last">>}
      BY <2>2, <1>1, <1>2
    <3>2. Head(stores'[p]) # "link"
      <4>1. {"val", "last"} \subseteq StoreNames
        BY DEF StoreNames
      <4> QED
        BY <3>1, <4>1, Lists
    <3>3. variant = "packed" => Holding(call[p].key)' = {}
      BY <1>0, <1>2, <1>5, <1>12
    <3>4. variant # "packed" => stores'[p] = <<"val">>
      <4>1. ASSUME variant # "packed" PROVE stores'[p] \in KeyAhead \cup {<<"val">>}
        <5>1. stores[p] \in KeyAhead \cup {<<"val">>}
          BY <1>0, <4>1, StoreEffect DEF StoresLeft
        <5>2. Rest(stores[p], KeyAhead \cup {<<"val">>})
          BY <5>1, RestOfPut
        <5> QED
          BY <5>2, <1>2, <2>2 DEF Rest
      <4> QED
        BY <3>1, <4>1 DEF KeyAhead
    <3>5. FilledTo(x)' = FilledTo(x)
      BY <1>2 DEF FilledTo
    <3>6. /\ empty'[p] \in Places /\ empty'[p][1] <= linked' /\ call'[p].op = "put"
      BY <1>0, <1>2, <1>5
    <3>7. variant' = "packed" =>
            /\ empty'[p][2] = last'[empty'[p][1]] + 1 /\ FilledTo(x)'
            /\ key'[empty'[p][1]][empty'[p][2]] = call'[p].key
      BY <1>2, <1>3, <1>5, <3>5
    <3> QED
      BY <3>2, <3>3, <3>4, <3>6, <3>7 DEF Storing
  <2> QED
    BY <2>1, <2>2
<1> QED
  BY <1>8, <1>9, <1>11, <1>13, <1>14 DEF Kept

(* last is raised: the entry of a packed chain counts from now on.          *)
LEMMA StoreLast ==
  ASSUME IndInv, NEW p \in Threads, Store(p), variant' = variant, Head(stores[p]) = "last"
  PROVE  Kept(p)'
<1> DEFINE x == empty[p][1]
           y == empty[p][2]
<1>0. /\ TypeOK /\ Fresh /\ Filled /\ Storing(p) /\ pc[p] = "store" /\ call[p].key \in Keys
      /\ empty[p] \in Places /\ empty[p] = <<x, y>> /\ x \in Buckets /\ y \in Slots
      /\ call[p].op = "put" /\ variant = "packed" /\ stores[p] = <<"last">>
      /\ linked \in Nat /\ linked <= MaxBuckets /\ MaxBuckets \in Nat
  <2>1. TypeOK /\ Fresh /\ Filled
    BY DEF IndInv
  <2>2. stores[p] = <<"last">>
    BY StoreEffect DEF First
  <2>3. linked \in Nat /\ linked <= MaxBuckets /\ MaxBuckets \in Nat
    BY <2>1, SizesAssumption DEF TypeOK, Buckets
  <2> QED
    BY <2>1, <2>2, <2>3, StoreEffect, StoreOfPut
<1>1. x <= linked /\ x \in Nat /\ Holding(call[p].key) = {} /\ y = last[x] + 1 /\ FilledTo(x)
      /\ key[x][y] = call[p].key /\ last[x] \in Nat
  <2>1. <<"last">> # <<"val">>
    OBVIOUS
  <2>2. x \in Nat /\ last[x] \in Nat
    BY <1>0, Bounds, SizesAssumption DEF TypeOK
  <2> QED
    BY <2>1, <2>2, <1>0 DEF Storing
<1>2. /\ key' = key /\ linked' = linked /\ last' = [last EXCEPT ![x] = @ + 1]
      /\ pc'[p] = "unlock" /\ UNCHANGED <<call, b, j, empty>>
  <2>1. StoreAt(p, "last")
    BY StoreEffect
  <2>2. Tail(stores[p]) = << >>
    <3>1. "last" \in StoreNames
      BY DEF StoreNames
    <3> QED
      BY <1>0, <3>1, Lists
  <2> QED
    BY <2>1, <2>2, StorePlaces DEF StoreAt
<1>3. last'[x] = y /\ \A z \in Buckets : z # x => last'[z] = last[z]
  BY <1>0, <1>1, <1>2 DEF TypeOK
<1>4. Fresh'
  <2>1. \A z \in (linked + 1)..MaxBuckets : z \in Buckets /\ z # x
    BY <1>0, <1>1 DEF Buckets
  <2> QED
    BY <2>1, <1>0, <1>2, <1>3 DEF Fresh
<1>5. Filled'
  <2>1. FilledTo(x)'
    <3>1. \A z \in 1..(x - 1) : z \in Buckets /\ z # x
      BY <1>0, <1>1 DEF Buckets
    <3>2. \A z \in (x + 1)..MaxBuckets : z \in Buckets /\ z # x
      BY <1>0, <1>1 DEF Buckets
    <3> QED
      BY <3>1, <3>2, <1>1, <1>2, <1>3 DEF FilledTo
  <2>2. x \in 1..linked' /\ last'[x] > 0
    BY <1>0, <1>1, <1>2, <1>3 DEF Slots, Buckets
  <2> QED
    BY <2>1, <2>2, <1>2 DEF Filled, FilledTo
<1>6. \A pl \in Places : Used(pl[1], pl[2])' => Used(pl[1], pl[2]) \/ pl = empty[p]
  <2> SUFFICES ASSUME NEW pl \in Places, Used(pl[1], pl[2])', pl # empty[p]
               PROVE  Used(pl[1], pl[2])
    OBVIOUS
  <2>1. pl = <<pl[1], pl[2]>> /\ pl[1] \in Buckets /\ pl[2] \in Slots /\ pl[2] \in Nat
    BY Bounds
  <2>2. pl[1] <= linked /\ pl[2] <= last'[pl[1]]
    BY <1>0, <1>2 DEF Used
  <2>3. CASE pl[1] # x
    BY <2>1, <2>2, <2>3, <1>3 DEF Used
  <2>4. CASE pl[1] = x
    <3>1. pl[2] # y
      BY <2>1, <2>4, <1>0
    <3> QED
      BY <3>1, <2>1, <2>2, <2>4, <1>1, <1>3 DEF Used
  <2> QED
    BY <2>3, <2>4
<1>7. stores[p] \notin Moves
  <2>1. <<"last">> \notin Moves
    BY DEF Moves
  <2> QED
    BY <2>1, <1>0
<1>8. NoHoles'
  <2>1. \A pl \in Places : Used(pl[1], pl[2])' => key[pl[1]][pl[2]] \in Keys
    BY <1>0, <1>1, <1>6, <1>7, Whole
  <2> QED
    BY <2>1, <1>2 DEF NoHoles
<1>9. OneCopy'
  <2>1. ASSUME NEW k \in Keys PROVE \/ Holding(k)' \subseteq Holding(k)
                                    \/ Holding(k)' \subseteq {empty[p]}
    <3>1. \A pl \in Holding(k)' : pl # empty[p] => pl \in Holding(k)
      BY <1>2, <1>6 DEF Holding
    <3>2. CASE k = call[p].key
      BY <3>1, <3>2, <1>1
    <3>3. CASE k # call[p].key
      <4>1. empty[p] \notin Holding(k)'
        BY <3>3, <1>0, <1>1, <1>2 DEF Holding
      <4> QED
        BY <3>1, <4>1
    <3> QED
      BY <3>2, <3>3
  <2> QED
    BY <2>1, <1>7, Whole DEF OneCopy
<1>10. Storing(p)'
  BY <1>2 DEF Storing
<1> QED
  BY <1>4, <1>5, <1>8, <1>9, <1>10 DEF Kept

(* A key is cleared; in a packed chain that leaves a hole.                  *)
LEMMA StoreClear ==
  ASSUME IndInv, NEW p \in Threads, Store(p), variant' = variant, Head(stores[p]) = "clear"
  PROVE  Kept(p)'
<1> DEFINE x == empty[p][1]
           y == empty[p][2]
<1>0. /\ TypeOK /\ Fresh /\ Filled /\ Storing(p) /\ pc[p] = "store"
      /\ empty[p] \in Places /\ empty[p] = <<x, y>> /\ x \in Buckets /\ y \in Slots
      /\ call[p].op = "remove" /\ stores[p] \in StoresLeft(p)
  <2>1. call[p].op \in {"put", "remove"} /\ call[p].op # "put"
    BY StoreEffect, StoreOfPut
  <2> QED
    BY <2>1, StoreEffect DEF IndInv
<1>1. \/ stores[p] = <<"clear">>
      \/ stores[p] = <<"clear", "moveval", "movekey", "unlast">>
         /\ Tail(stores[p]) = <<"moveval", "movekey", "unlast">>
  BY StoreEffect DEF First
<1>2. /\ last' = last /\ linked' = linked /\ stores'[p] = Tail(stores[p])
      /\ pc'[p] = IF Tail(stores[p]) = << >> THEN "unlock" ELSE "store"
      /\ UNCHANGED <<call, b, j, empty>>
      /\ \A z \in Buckets, w \in Slots : <<z, w>> # empty[p] => key'[z][w] = key[z][w]
      /\ key'[x][y] = KeyStored(p, "clear")
  BY StorePlaces
<1>3. key'[x][y] = 0 /\ 0 \notin Keys
  BY <1>2, KeysAssumption DEF KeyStored
<1>4. stores[p] \notin Moves
  <2>1. <<"clear">> \notin Moves /\ <<"clear", "moveval", "movekey", "unlast">> \notin Moves
    BY DEF Moves
  <2> QED
    BY <2>1, <1>1
<1>5. \A pl \in Places : pl # empty[p] => key'[pl[1]][pl[2]] = key[pl[1]][pl[2]]
  BY <1>0, <1>2, Bounds
<1>6. \A k \in Keys : Holding(k)' \subseteq Holding(k)
  BY <1>0, <1>2, <1>3, <1>5 DEF Holding, Used
<1>7. Fresh'
  <2> SUFFICES ASSUME NEW z \in (linked + 1)..MaxBuckets, NEW w \in Slots
               PROVE  last[z] = 0 /\ key'[z][w] = 0
    BY <1>2, <1>0 DEF Fresh
  <2>1. z \in Buckets
    BY <1>0, SizesAssumption DEF TypeOK, Buckets
  <2>2. last[z] = 0 /\ key[z][w] = 0
    BY <1>0 DEF Fresh
  <2>3. CASE <<z, w>> = empty[p]
    BY <2>2, <2>3, <1>0, <1>3
  <2>4. CASE <<z, w>> # empty[p]
    BY <2>1, <2>2, <2>4, <1>2
  <2> QED
    BY <2>3, <2>4
<1>8. Filled'
  BY <1>0, <1>2 DEF Filled, FilledTo
<1>9. variant = "packed" => stores'[p] = <<"moveval", "movekey", "unlast">>
  <2>1. ASSUME variant = "packed" PROVE stores[p] # <<"clear">>
    <3>1. stores[p] \in Removing
      BY <2>1, <1>0 DEF StoresLeft
    <3>2. <<"clear">> \notin Removing
      BY DEF Removing
    <3> QED
      BY <3>1, <3>2
  <2> QED
    BY <2>1, <1>1, <1>2
<1>10. NoHoles'
  <2> SUFFICES ASSUME variant = "packed", NEW pl \in Places, Used(pl[1], pl[2])'
               PROVE  key'[pl[1]][pl[2]] \in Keys \/ Hole(pl)'
    BY DEF NoHoles
  <2>1. CASE pl = empty[p]
    BY <2>1, <1>2, <1>9 DEF Hole
  <2>2. CASE pl # empty[p]
    BY <2>2, <1>2, <1>4, <1>5, Whole DEF Used
  <2> QED
    BY <2>1, <2>2
<1>11. OneCopy'
  BY <1>4, <1>6, Whole DEF OneCopy
<1>12. Storing(p)'
  <2>1. CASE pc'[p] = "unlock"
    BY <2>1 DEF Storing
  <2>2. CASE pc'[p] # "unlock"
    <3>1. stores'[p] = <<"moveval", "movekey", "unlast">>
      <4>1. Tail(<<"clear">>) = << >>
        <5>1. "clear" \in StoreNames
          BY DEF StoreNames
        <5> QED
          BY <5>1, Lists
      <4> QED
        BY <4>1, <2>2, <1>1, <1>2
    <3>2. Head(stores'[p]) # "link"
      <4>1. {"moveval", "movekey", "unlast"} \subseteq StoreNames
        BY DEF StoreNames
      <4> QED
        BY <3>1, <4>1, Lists
    <3>3. empty[p][1] <= linked
          /\ (variant = "packed" => empty[p] = <<b[p], j[p]>> /\ j[p] <= last[b[p]])
      BY <1>0 DEF Storing
    <3> QED
      BY <3>2, <3>3, <1>0, <1>2 DEF Storing
  <2> QED
    BY <2>1, <2>2
<1> QED
  BY <1>7, <1>8, <1>10, <1>11, <1>12 DEF Kept

(* The holes while the last entry of a packed chain is moved.               *)
LEMMA MoveHoles ==
  ASSUME IndInv, NEW p \in Threads, Store(p), stores[p] \in Moves
  PROVE  LET hole == IF stores[p] = <<"unlast">> THEN LastPlace(p) ELSE empty[p]
         IN  /\ variant = "packed" => \A pl \in Places :
                  Used(pl[1], pl[2]) => key[pl[1]][pl[2]] \in Keys \/ pl = hole
             /\ \A k \in Keys : \A pl, other \in Holding(k) :
                  pl = other \/ (stores[p] = <<"unlast">> /\ hole \in {pl, other})
<1> DEFINE hole == IF stores[p] = <<"unlast">> THEN LastPlace(p) ELSE empty[p]
<1>1. << >> \notin Moves
  BY DEF Moves
<1>2. \A q \in Threads : stores[q] \in Moves => q = p
  BY <1>1, Alone
<1>3. NoHoles /\ OneCopy
  BY DEF IndInv
<1>4. \A pl : Hole(pl) => pl = hole
  <2> SUFFICES ASSUME NEW pl, NEW q \in Threads,
                      \/ stores[q] = <<"unlast">> /\ pl = LastPlace(q)
                      \/ stores[q] \in {<<"moveval", "movekey", "unlast">>, <<"movekey", "unlast">>}
                         /\ pl = empty[q]
               PROVE  pl = hole
    BY DEF Hole
  <2>1. q = p
    BY <1>2 DEF Moves
  <2>2. <<"unlast">> \notin {<<"moveval", "movekey", "unlast">>, <<"movekey", "unlast">>}
    OBVIOUS
  <2> QED
    BY <2>1, <2>2
<1>5. \A q \in Threads : stores[q] = <<"unlast">> => q = p
  BY <1>2 DEF Moves
<1> HIDE DEF hole
<1>6. variant = "packed" => \A pl \in Places :
         Used(pl[1], pl[2]) => key[pl[1]][pl[2]] \in Keys \/ pl = hole
  BY <1>3, <1>4 DEF NoHoles
<1>7. \A k \in Keys : \A pl, other \in Holding(k) :
         pl = other \/ (stores[p] = <<"unlast">> /\ hole \in {pl, other})
  BY <1>3, <1>5 DEF OneCopy, hole
<1> QED
  BY <1>6, <1>7 DEF hole

(* What a packed remove knows while it moves the last entry, whatever store *)
(* it is at: the last place, and that its own place counts.                 *)
LEMMA MoveState ==
  ASSUME IndInv, NEW p \in Threads, Store(p),
         Head(stores[p]) \in {"moveval", "movekey", "unlast"}
  PROVE  /\ TypeOK /\ Fresh /\ Filled /\ Storing(p) /\ pc[p] = "store" /\ stores[p] \in Moves
         /\ call[p].op = "remove" /\ variant = "packed" /\ empty[p] \in Places
         /\ linked \in Nat /\ linked >= 1 /\ linked <= MaxBuckets /\ MaxBuckets \in Nat
         /\ \E e \in 1..linked :
              /\ FilledTo(e) /\ LastBucket(p) = e /\ e \in Buckets /\ last[e] \in Slots
              /\ b[p] \in 1..e /\ empty[p] = <<b[p], j[p]>> /\ j[p] \in 1..last[b[p]]
              /\ LastPlace(p) = <<e, last[e]>> /\ LastPlace(p) \in Places
<1>1. call[p].op = "remove" /\ variant = "packed" /\ pc[p] = "store" /\ empty[p] \in Places
      /\ Storing(p)
  BY StoreEffect, StoreOfPut
<1>2. stores[p] \in Moves
  BY StoreEffect DEF First, Moves
<1>3. TypeOK /\ Fresh /\ Filled
  BY DEF IndInv
<1>4. linked \in Nat /\ linked >= 1 /\ linked <= MaxBuckets /\ MaxBuckets \in Nat
  BY <1>3, SizesAssumption DEF TypeOK, Buckets
<1> QED
  BY <1>1, <1>2, <1>3, <1>4, Moved

(* The value is moved: no key and no place changes.                         *)
LEMMA StoreMoveval ==
  ASSUME IndInv, NEW p \in Threads, Store(p), variant' = variant, Head(stores[p]) = "moveval"
  PROVE  Kept(p)'
<1>1. /\ TypeOK /\ Fresh /\ Filled /\ Storing(p) /\ pc[p] = "store" /\ stores[p] \in Moves
      /\ call[p].op = "remove" /\ variant = "packed" /\ empty[p] \in Places
  BY MoveState
<1>2. stores[p] = <<"moveval", "movekey", "unlast">> /\ Tail(stores[p]) = <<"movekey", "unlast">>
  BY StoreEffect DEF First
<1>3. stores[p] # <<"unlast">> /\ Tail(stores[p]) # << >>
  BY <1>2
<1>4. /\ key' = key /\ last' = last /\ linked' = linked /\ stores'[p] = <<"movekey", "unlast">>
      /\ pc'[p] = "store" /\ UNCHANGED <<call, b, j, empty>>
  BY <1>2, <1>3, StorePlaces
<1>5. \A k \in Keys : Holding(k)' = Holding(k)
  BY <1>4, HoldingSame
<1>6. Fresh' /\ Filled'
  BY <1>1, <1>4 DEF Fresh, Filled, FilledTo
<1>7. NoHoles'
  <2>1. Hole(empty[p])'
    BY <1>4 DEF Hole
  <2> QED
    BY <2>1, <1>1, <1>3, <1>4, MoveHoles DEF NoHoles, Used
<1>8. OneCopy'
  BY <1>1, <1>3, <1>5, MoveHoles DEF OneCopy
<1>9. Storing(p)'
  <2>1. Head(stores'[p]) = "movekey"
    <3>1. {"movekey", "unlast"} \subseteq StoreNames
      BY DEF StoreNames
    <3> QED
      BY <1>4, <3>1, Lists
  <2>2. Head(stores[p]) # "link"
    OBVIOUS
  <2> QED
    BY <2>1, <2>2, <1>1, <1>4 DEF Storing
<1> QED
  BY <1>6, <1>7, <1>8, <1>9 DEF Kept

(* The key is moved: it is in the hole and in the last place now.           *)
LEMMA StoreMovekey ==
  ASSUME IndInv, NEW p \in Threads, Store(p), variant' = variant, Head(stores[p]) = "movekey"
  PROVE  Kept(p)'
<1> DEFINE x == empty[p][1]
           y == empty[p][2]
<1>1. /\ TypeOK /\ Fresh /\ Filled /\ Storing(p) /\ pc[p] = "store" /\ stores[p] \in Moves
      /\ call[p].op = "remove" /\ variant = "packed" /\ empty[p] \in Places
      /\ linked \in Nat /\ linked >= 1 /\ linked <= MaxBuckets /\ MaxBuckets \in Nat
  BY MoveState
<1>2. PICK e \in 1..linked :
         /\ FilledTo(e) /\ LastBucket(p) = e /\ e \in Buckets /\ last[e] \in Slots
         /\ b[p] \in 1..e /\ empty[p] = <<b[p], j[p]>> /\ j[p] \in 1..last[b[p]]
         /\ LastPlace(p) = <<e, last[e]>> /\ LastPlace(p) \in Places
  BY MoveState
<1>3. stores[p] = <<"movekey", "unlast">> /\ Tail(stores[p]) = <<"unlast">>
  BY StoreEffect DEF First
<1>4. stores[p] # <<"unlast">> /\ Tail(stores[p]) # << >>
  BY <1>3
<1>5. /\ last' = last /\ linked' = linked /\ stores'[p] = <<"unlast">>
      /\ pc'[p] = "store" /\ UNCHANGED <<call, b, j, empty>>
      /\ \A z \in Buckets, w \in Slots : <<z, w>> # empty[p] => key'[z][w] = key[z][w]
      /\ key'[x][y] = KeyStored(p, "movekey")
  BY <1>3, <1>4, StorePlaces
<1>6. key'[x][y] = key[e][last[e]]
  BY <1>2, <1>5 DEF KeyStored
<1>7. \A pl \in Places : pl # empty[p] => key'[pl[1]][pl[2]] = key[pl[1]][pl[2]]
  BY <1>5, Bounds
<1>8. x = b[p] /\ y = j[p] /\ x \in Buckets /\ x <= linked
  <2>1. x \in Buckets
    BY <1>1, Bounds
  <2> QED
    BY <2>1, <1>1, <1>2
<1>9. Used(e, last[e]) /\ <<e, last[e]>> \in Places
  BY <1>1, <1>2 DEF Used, Slots
<1>10. LastPlace(p)' = LastPlace(p)
  <2>1. LastBucket(p)' = LastBucket(p)
    BY <1>5 DEF LastBucket
  <2> QED
    BY <2>1, <1>5 DEF LastPlace
<1>11. Fresh'
  <2> SUFFICES ASSUME NEW z \in (linked + 1)..MaxBuckets, NEW w \in Slots
               PROVE  last[z] = 0 /\ key'[z][w] = 0
    BY <1>1, <1>5 DEF Fresh
  <2>1. z \in Buckets /\ z # x /\ last[z] = 0 /\ key[z][w] = 0
    BY <1>1, <1>8 DEF Fresh, Buckets
  <2>2. <<z, w>> # empty[p]
    BY <2>1, <1>2, <1>8
  <2> QED
    BY <2>1, <2>2, <1>5
<1>12. Filled'
  BY <1>1, <1>5 DEF Filled, FilledTo
<1>13. NoHoles'
  <2> SUFFICES ASSUME NEW pl \in Places, Used(pl[1], pl[2])'
               PROVE  key'[pl[1]][pl[2]] \in Keys \/ Hole(pl)'
    BY DEF NoHoles
  <2>0. Used(pl[1], pl[2])
    BY <1>1, <1>5 DEF Used
  <2>1. CASE pl = LastPlace(p)
    BY <2>1, <1>5, <1>10 DEF Hole
  <2>2. CASE pl # LastPlace(p) /\ pl = empty[p]
    <3>1. LastPlace(p) # empty[p] /\ <<e, last[e]>>[1] = e /\ <<e, last[e]>>[2] = last[e]
      BY <2>2
    <3>2. key[e][last[e]] \in Keys
      BY <3>1, <1>1, <1>2, <1>4, <1>9, MoveHoles
    <3> QED
      BY <3>2, <2>2, <1>6
  <2>3. CASE pl # empty[p]
    BY <2>0, <2>3, <1>1, <1>4, <1>7, MoveHoles
  <2> QED
    BY <2>1, <2>2, <2>3
<1>14. OneCopy'
  <2>1. ASSUME NEW k \in Keys, NEW pl \in Holding(k)', NEW other \in Holding(k)', pl # other,
               LastPlace(p) \notin {pl, other}
        PROVE  FALSE
    <3>1. \A o \in Holding(k)' : o # empty[p] => o \in Holding(k)
      BY <1>1, <1>5, <1>7 DEF Holding, Used
    <3>2. empty[p] \in Holding(k)' => LastPlace(p) \in Holding(k)
      <4> SUFFICES ASSUME empty[p] \in Holding(k)' PROVE LastPlace(p) \in Holding(k)
        OBVIOUS
      <4>1. key[e][last[e]] = k
        BY <1>5, <1>6 DEF Holding
      <4>2. <<e, last[e]>>[1] = e /\ <<e, last[e]>>[2] = last[e]
        OBVIOUS
      <4> QED
        BY <4>1, <4>2, <1>2, <1>9 DEF Holding
    <3>3. \A o, r \in Holding(k) : o = r
      BY <1>1, <1>4, MoveHoles
    <3> QED
      BY <3>1, <3>2, <3>3, <2>1
  <2> QED
    BY <2>1, <1>5, <1>10 DEF OneCopy
<1>15. Storing(p)'
  <2>1. Head(stores'[p]) = "unlast"
    <3>1. "unlast" \in StoreNames
      BY DEF StoreNames
    <3> QED
      BY <1>5, <3>1, Lists
  <2>2. Head(stores[p]) # "link"
    OBVIOUS
  <2> QED
    BY <2>1, <2>2, <1>1, <1>5 DEF Storing
<1> QED
  BY <1>11, <1>12, <1>13, <1>14, <1>15 DEF Kept

(* last is lowered: the place of the entry that was moved counts no more.   *)
LEMMA StoreUnlast ==
  ASSUME IndInv, NEW p \in Threads, Store(p), variant' = variant, Head(stores[p]) = "unlast"
  PROVE  Kept(p)'
<1>1. /\ TypeOK /\ Fresh /\ Filled /\ Storing(p) /\ pc[p] = "store" /\ stores[p] \in Moves
      /\ call[p].op = "remove" /\ variant = "packed" /\ empty[p] \in Places
      /\ linked \in Nat /\ linked >= 1 /\ linked <= MaxBuckets /\ MaxBuckets \in Nat
  BY MoveState
<1>2. PICK e \in 1..linked :
         /\ FilledTo(e) /\ LastBucket(p) = e /\ e \in Buckets /\ last[e] \in Slots
         /\ LastPlace(p) = <<e, last[e]>> /\ LastPlace(p) \in Places
  BY MoveState
<1>3. stores[p] = <<"unlast">>
  BY StoreEffect DEF First
<1>4. Tail(stores[p]) = << >>
  <2>1. "unlast" \in StoreNames
    BY DEF StoreNames
  <2> QED
    BY <2>1, <1>3, Lists
<1>5. /\ key' = key /\ linked' = linked /\ last' = [last EXCEPT ![e] = @ - 1]
      /\ pc'[p] = "unlock" /\ UNCHANGED <<call, b, j, empty>>
  <2>1. StoreAt(p, "unlast")
    BY StoreEffect
  <2> QED
    BY <2>1, <1>2, <1>4, StorePlaces DEF StoreAt
<1>6. last'[e] = last[e] - 1 /\ \A z \in Buckets : z # e => last'[z] = last[z]
  BY <1>1, <1>2, <1>5 DEF TypeOK
<1>7. last[e] \in Nat /\ last[e] >= 1 /\ e \in Nat
  BY <1>2, Bounds, SizesAssumption DEF Slots
<1>8. Fresh'
  <2>1. \A z \in (linked + 1)..MaxBuckets : z \in Buckets /\ z # e
    BY <1>1 DEF Buckets
  <2> QED
    BY <2>1, <1>1, <1>5, <1>6 DEF Fresh
<1>9. Filled'
  <2>1. \A z \in 1..(e - 1) : last'[z] = ENTRIES_PER_BUCKET
    <3>1. \A z \in 1..(e - 1) : z \in Buckets /\ z # e
      BY <1>1, <1>7 DEF Buckets
    <3> QED
      BY <3>1, <1>2, <1>6 DEF FilledTo
  <2>2. \A z \in (e + 1)..MaxBuckets : last'[z] = 0
    <3>1. \A z \in (e + 1)..MaxBuckets : z \in Buckets /\ z # e
      BY <1>1, <1>7 DEF Buckets
    <3> QED
      BY <3>1, <1>2, <1>6 DEF FilledTo
  <2>3. CASE last[e] > 1 \/ e = 1
    <3>1. FilledTo(e)' /\ (e > 1 => last'[e] > 0)
      BY <2>1, <2>2, <2>3, <1>5, <1>6, <1>7 DEF FilledTo
    <3> QED
      BY <3>1, <1>5 DEF Filled, FilledTo
  <2>4. CASE last[e] = 1 /\ e > 1
    <3>1. e - 1 \in 1..linked /\ e - 1 \in 1..(e - 1)
      BY <2>4, <1>1, <1>7
    <3>2. last'[e] = 0
      BY <2>4, <1>6
    <3>3. \A z \in ((e - 1) + 1)..MaxBuckets : last'[z] = 0
      BY <2>2, <3>2, <1>1, <1>7
    <3>4. \A z \in 1..((e - 1) - 1) : last'[z] = ENTRIES_PER_BUCKET
      BY <2>1, <1>7
    <3>5. FilledTo(e - 1)'
      BY <3>3, <3>4 DEF FilledTo
    <3>6. last'[e - 1] > 0
      BY <3>1, <2>1, SizesAssumption
    <3> QED
      BY <3>1, <3>5, <3>6, <1>1, <1>5, <1>7 DEF Filled, FilledTo
  <2> QED
    BY <2>3, <2>4, <1>7
<1>10. \A pl \in Places : Used(pl[1], pl[2])' => Used(pl[1], pl[2]) /\ pl # LastPlace(p)
  <2> SUFFICES ASSUME NEW pl \in Places, Used(pl[1], pl[2])'
               PROVE  Used(pl[1], pl[2]) /\ pl # LastPlace(p)
    OBVIOUS
  <2>1. pl = <<pl[1], pl[2]>> /\ pl[1] \in Buckets /\ pl[2] \in Nat
        /\ pl[1] <= linked /\ pl[2] <= last'[pl[1]]
    BY <1>1, <1>5, Bounds DEF Used
  <2>2. CASE pl[1] # e
    <3>1. pl # <<e, last[e]>>
      BY <2>1, <2>2
    <3> QED
      BY <2>1, <2>2, <3>1, <1>2, <1>6 DEF Used
  <2>3. CASE pl[1] = e
    <3>1. pl[2] < last[e]
      BY <2>1, <2>3, <1>6, <1>7
    <3>2. pl # <<e, last[e]>>
      BY <3>1, <1>7
    <3> QED
      BY <2>1, <2>3, <3>1, <3>2, <1>2, <1>7 DEF Used
  <2> QED
    BY <2>2, <2>3
<1>11. NoHoles'
  BY <1>1, <1>3, <1>5, <1>10, MoveHoles DEF NoHoles
<1>12. OneCopy'
  <2>1. \A k \in Keys : \A pl \in Holding(k)' : pl \in Holding(k) /\ pl # LastPlace(p)
    BY <1>5, <1>10 DEF Holding
  <2> QED
    BY <2>1, <1>1, <1>3, MoveHoles DEF OneCopy
<1>13. Storing(p)'
  BY <1>5 DEF Storing
<1> QED
  BY <1>8, <1>9, <1>11, <1>12, <1>13 DEF Kept

(* Every step keeps the invariant.                                          *)
LEMMA InvStep == IndInv /\ Next => IndInv'
<1> SUFFICES ASSUME IndInv, Next PROVE IndInv'
  OBVIOUS
<1>1. TypeOK'
  BY TypesStep
<1>2. PICK p \in Threads : Invoke(p) \/ Work(p)
  BY DEF Next
<1>3. variant' = variant
  BY DEF Next
<1>4. ASSUME NEW q \in Threads PROVE Phase(q)'
  <2>1. CASE q = p
    BY <2>1, <1>2, <1>3, PhaseStep
  <2>2. CASE q # p
    <3>1. /\ pc'[q] = pc[q] /\ call'[q] = call[q] /\ b'[q] = b[q] /\ j'[q] = j[q]
          /\ empty'[q] = empty[q] /\ stores'[q] = stores[q]
      BY <2>2, <1>2, OthersStay DEF IndInv
    <3>2. StoresLeft(q)' = StoresLeft(q)
      BY <3>1, <1>3 DEF StoresLeft
    <3>3. Phase(q)
      BY DEF IndInv
    <3> QED
      BY <3>1, <3>2, <3>3, <1>3 DEF Phase
  <2> QED
    BY <2>1, <2>2
<1>5. CASE Store(p)
  <2>1. Head(stores[p]) \in
          {"link", "key", "val", "last", "clear", "moveval", "movekey", "unlast"}
    BY <1>5, StoreEffect DEF First
  <2>2. Kept(p)'
    BY <2>1, <1>3, <1>5, StoreLink, StoreVal, StoreKey, StoreLast, StoreClear, StoreMoveval,
       StoreMovekey, StoreUnlast
  <2>3. pc'[p] # "search"
    <3>1. StoreAt(p, Head(stores[p]))
      BY <1>5, StoreEffect
    <3> QED
      BY <1>5, <3>1 DEF StoreAt, IndInv, TypeOK
  <2>4. Searching(p)'
    BY <2>3 DEF Searching
  <2>5. \A q \in Threads : Searching(q)' /\ Storing(q)'
    BY <2>2, <2>4, <1>5, Alone DEF Kept
  <2> QED
    BY <2>2, <2>5, <1>1, <1>4 DEF IndInv, Kept
<1>6. CASE ~Store(p)
  <2>1. Shrinks /\ pc[p] # "store"
    BY <1>2, <1>3, <1>6, ShrinkStep
  <2>2. Fresh' /\ NoHoles' /\ OneCopy'
    BY <2>1, <1>2, <1>3, <1>6, FreshStays, HolesStay
  <2>3. Filled'
    BY <2>1 DEF IndInv, Filled, FilledTo, Shrinks
  <2>4. ASSUME NEW q \in Threads PROVE Searching(q)' /\ Storing(q)'
    <3>1. CASE q = p
      BY <3>1, <1>2, <1>3, <1>6, SearchKnows
    <3>2. CASE q # p
      BY <3>2, <2>1, <1>2, OthersKnow
    <3> QED
      BY <3>1, <3>2
  <2> QED
    BY <2>2, <2>3, <2>4, <1>1, <1>4 DEF IndInv
<1> QED
  BY <1>5, <1>6

(* It holds of the empty table.                                             *)
LEMMA InvInit == Init => IndInv
<1> SUFFICES ASSUME Init PROVE IndInv
  OBVIOUS
<1>1. TypeOK
  <2>1. 1 \in Buckets /\ 1 \in 1..(ENTRIES_PER_BUCKET + 1) /\ 0 \in 0..Junk
        /\ Junk \in 0..Junk /\ 0 \in 0..ENTRIES_PER_BUCKET /\ 0 \in 0..MaxPuts
    BY Bounds, SizesAssumption DEF Junk
  <2>2. << >> \in Seq(StoreNames)
    OBVIOUS
  <2>3. key \in [Buckets -> [Slots -> Keys \cup {None, KEY_BLCK}]]
        /\ val \in [Buckets -> [Slots -> 0..Junk]]
    BY <2>1 DEF Init
  <2>4. \A p \in Threads : pc[p] \in {"search", "store", "unlock"} <=> lock = p
    BY ThreadsAssumption DEF Init
  <2> QED
    BY <2>1, <2>2, <2>3, <2>4 DEF Init, TypeOK, Labels
<1>2. Fresh
  <2>1. \A x \in (linked + 1)..MaxBuckets : x \in Buckets
    BY Bounds, SizesAssumption DEF Init, Buckets
  <2> QED
    BY <2>1 DEF Init, Fresh
<1>3. Filled
  <2>1. FilledTo(1) /\ 1 \in 1..linked
    BY SizesAssumption DEF Init, FilledTo, Buckets
  <2> QED
    BY <2>1 DEF Filled
<1>4. NoHoles
  <2>1. \A pl \in Places : variant = "packed" => ~Used(pl[1], pl[2])
    BY Bounds, SizesAssumption DEF Init, Used, Slots
  <2> QED
    BY <2>1 DEF NoHoles
<1>5. OneCopy
  <2>1. \A k \in Keys : Holding(k) = {}
    BY Bounds, KeysAssumption DEF Init, Holding
  <2> QED
    BY <2>1 DEF OneCopy
<1>6. ASSUME NEW p \in Threads PROVE Phase(p) /\ Searching(p) /\ Storing(p)
  BY Bounds DEF Init, Phase, Searching, Storing
<1> QED
  BY <1>1, <1>2, <1>3, <1>4, <1>5, <1>6 DEF IndInv

(* What the thread that has the lock knows holds in every state: the        *)
(* invariant the theorems below follow from.                                *)
THEOREM Invariance == Spec => []IndInv
<1>1. IndInv /\ UNCHANGED vars => IndInv'
  <2> SUFFICES ASSUME IndInv, UNCHANGED vars PROVE IndInv'
    OBVIOUS
  <2> USE DEF vars, table, locals
  <2>1. TypeOK' /\ Fresh' /\ Filled'
    BY DEF IndInv, TypeOK, Fresh, Filled, FilledTo
  <2>2. \A q \in Threads : LastPlace(q)' = LastPlace(q)
    BY DEF LastPlace, LastBucket
  <2>3. NoHoles'
    BY <2>2 DEF IndInv, NoHoles, Hole, Used
  <2>4. \A k \in Keys : Holding(k)' = Holding(k)
    BY DEF Holding, Used
  <2>5. OneCopy'
    BY <2>2, <2>4 DEF IndInv, OneCopy
  <2>6. ASSUME NEW q \in Threads PROVE Phase(q)' /\ Searching(q)' /\ Storing(q)'
    <3>1. Phase(q) /\ Searching(q) /\ Storing(q)
      BY DEF IndInv
    <3>2. Phase(q)'
      BY <3>1 DEF Phase, StoresLeft
    <3>3. Searching(q)'
      BY <3>1 DEF Searching, Holding, Used
    <3>4. Storing(q)'
      BY <3>1 DEF Storing, Holding, Used, FilledTo
    <3> QED
      BY <3>2, <3>3, <3>4
  <2> QED
    BY <2>1, <2>3, <2>5, <2>6 DEF IndInv
<1> QED
  BY <1>1, InvInit, InvStep, PTL DEF Spec

(* The variables keep their types, and the lock is held exactly by the      *)
(* thread that works under it.                                              *)
THEOREM TypeInvariance == Spec => []TypeOK
<1>1. IndInv => TypeOK
  BY DEF IndInv
<1> QED
  BY <1>1, Invariance, PTL

(* No key is in two places, except the one a packed remove is moving:       *)
(* although a put looks for its key and takes a free slot in different      *)
(* steps, and the removes of lock_ins free slots without the lock.          *)
THEOREM NoDuplicates == Spec => []UniqueKeys
<1>1. IndInv => UniqueKeys
  BY DEF IndInv, OneCopy, UniqueKeys, Moving
<1> QED
  BY <1>1, Invariance, PTL

(* A packed chain has no holes: buckets before the last one in use are      *)
(* full, and while nobody has the lock every place below last holds a key.  *)
THEOREM StaysPacked == Spec => []Packed
<1>1. IndInv => Packed
  <2> SUFFICES ASSUME IndInv, variant = "packed" PROVE Packed
    BY DEF Packed
  <2>0. TypeOK /\ Filled /\ NoHoles
    BY DEF IndInv
  <2>1. PICK e \in 1..linked : FilledTo(e) /\ (e > 1 => last[e] > 0)
    BY <2>0 DEF Filled
  <2>2. linked \in Nat /\ linked <= MaxBuckets /\ MaxBuckets \in Nat /\ e \in Nat
    BY <2>0, SizesAssumption DEF TypeOK, Buckets
  <2>3. ASSUME NEW x \in 1..(linked - 1), last[x + 1] > 0 PROVE last[x] = ENTRIES_PER_BUCKET
    <3>1. x + 1 <= e
      <4> SUFFICES ASSUME x + 1 > e PROVE FALSE
        BY <2>2
      <4>1. x + 1 \in (e + 1)..MaxBuckets
        BY <2>2
      <4>2. last[x + 1] = 0
        BY <4>1, <2>1 DEF FilledTo
      <4> QED
        BY <4>2, <2>3
    <3>2. x \in 1..(e - 1)
      BY <3>1, <2>2
    <3> QED
      BY <3>2, <2>1 DEF FilledTo
  <2>4. ASSUME lock = None, NEW pl \in Places, pl[2] <= last[pl[1]]
        PROVE  key[pl[1]][pl[2]] \in Keys
    <3>1. \A p \in Threads : stores[p] = << >>
      BY <2>0, <2>4, Holder DEF IndInv, Phase
    <3>2. ~Hole(pl)
      BY <3>1 DEF Hole
    <3>3. pl[1] \in Buckets /\ pl[2] \in Slots
      BY Bounds
    <3>4. pl[1] <= linked
      <4> SUFFICES ASSUME pl[1] > linked PROVE FALSE
        BY <2>2, <3>3, Bounds
      <4>1. pl[1] \in (e + 1)..MaxBuckets
        BY <3>3, <2>2 DEF Buckets
      <4> QED
        BY <4>1, <2>1, <2>4, <3>3, SizesAssumption DEF FilledTo, Slots
    <3> QED
      BY <3>2, <3>4, <2>0, <2>4 DEF NoHoles, Used
  <2> QED
    BY <2>3, <2>4 DEF Packed
<1> QED
  BY <1>1, Invariance, PTL
=============================================================================
