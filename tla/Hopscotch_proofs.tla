--------------------------- MODULE Hopscotch_proofs ---------------------------
(***************************************************************************)
(* Theorems about Hopscotch: the types and the lock, that the lists are    *)
(* sound whenever nobody has the lock, and that the table is an atomic     *)
(* map, except that a containsKey may see an entry just before a put links *)
(* it.                                                                     *)
(***************************************************************************)
EXTENDS Hopscotch, FiniteSetTheorems, WellFoundedInduction, TLAPS

(* A set of natural numbers has a least member.                             *)
LEMMA Least ==
  ASSUME NEW S \in SUBSET Nat, S # {}
  PROVE  \E m \in S : \A k \in S : m <= k
<1> DEFINE R == OpToRel(<, Nat)
<1>1. IsWellFoundedOn(R, Nat)
  BY NatLessThanWellFounded
<1>2. \A x, y \in Nat : x < y => <<x, y>> \in R
  BY DEF OpToRel
<1> HIDE DEF R
<1>3. \E x \in S : \A y \in S : ~(<<y, x>> \in R)
  BY <1>1, WFMin
<1>4. \E x \in S : \A y \in S : ~(y < x)
  BY <1>2, <1>3
<1> QED
  BY <1>4

-----------------------------------------------------------------------------
(* The list of a bucket.                                                    *)
IsWalk(x, n, f) ==
  /\ f \in [1..n -> BucketOrNone]
  /\ f[1] = tbl[x].first
  /\ \A m \in 2..n : f[m] = IF f[m - 1] = NoBucket THEN NoBucket ELSE tbl[f[m - 1]].next

LEMMA WalkExists ==
  ASSUME tbl \in [Buckets -> Records], NEW x \in Buckets, NEW n \in Nat \ {0}
  PROVE  \E f : IsWalk(x, n, f)
<1> DEFINE Bad == {m \in Nat \ {0} : ~ \E f : IsWalk(x, m, f)}
<1> SUFFICES ASSUME Bad # {} PROVE FALSE
  OBVIOUS
<1>1. PICK m \in Bad : \A k \in Bad : m <= k
  BY Least
<1>2. CASE m = 1
  <2> DEFINE f == [i \in 1..1 |-> tbl[x].first]
  <2>1. IsWalk(x, 1, f)
    BY DEF IsWalk, Records
  <2> QED
    BY <2>1, <1>2, <1>1
<1>3. CASE m # 1
  <2>1. m - 1 \in Nat \ {0} /\ m - 1 \notin Bad
    BY <1>1, <1>3
  <2>2. PICK f : IsWalk(x, m - 1, f)
    BY <2>1
  <2> DEFINE g == [i \in 1..m |-> IF i < m THEN f[i]
                                  ELSE IF f[m - 1] = NoBucket THEN NoBucket ELSE tbl[f[m - 1]].next]
  <2>3. f \in [1..(m - 1) -> BucketOrNone] /\ m - 1 \in 1..(m - 1)
    BY <2>1, <2>2 DEF IsWalk
  <2>4. g \in [1..m -> BucketOrNone]
    BY <2>3, <1>1 DEF BucketOrNone, Records
  <2>5. g[1] = tbl[x].first
    BY <2>1, <2>2, <1>3 DEF IsWalk
  <2>6. \A i \in 2..m : g[i] = IF g[i - 1] = NoBucket THEN NoBucket ELSE tbl[g[i - 1]].next
    BY <2>1, <2>2, <1>3 DEF IsWalk
  <2>7. IsWalk(x, m, g)
    BY <2>4, <2>5, <2>6 DEF IsWalk
  <2> QED
    BY <2>7, <1>1
<1> QED
  BY <1>2, <1>3

LEMMA WalkIs ==
  ASSUME tbl \in [Buckets -> Records], NEW x \in Buckets
  PROVE  IsWalk(x, NumBuckets, Walk(x))
<1> DEFINE Next1(f, n) == IF n = 1 THEN tbl[x].first
                          ELSE IF f[n - 1] = NoBucket THEN NoBucket ELSE tbl[f[n - 1]].next
<1>1. PICK f : IsWalk(x, NumBuckets, f)
  BY WalkExists, SizesAssumption
<1> DEFINE P(g) == g = [n \in 1..NumBuckets |-> Next1(g, n)]
<1>2. P(f)
  BY <1>1, SizesAssumption DEF IsWalk
<1>3. Walk(x) = CHOOSE g : P(g)
  BY DEF Walk
<1>4. P(Walk(x))
  <2> HIDE DEF P
  <2> QED
    BY <1>2, <1>3
<1> DEFINE w == Walk(x)
<1> HIDE DEF w
<1>5. w = [n \in 1..NumBuckets |-> Next1(w, n)]
  BY <1>4 DEF w
<1>6. \A n \in 1..NumBuckets : w[n] = Next1(w, n)
  BY <1>5
<1>7. \A n \in 1..NumBuckets : w[n] \in BucketOrNone
  <2> DEFINE Bad == {n \in 1..NumBuckets : w[n] \notin BucketOrNone}
  <2> SUFFICES ASSUME Bad # {} PROVE FALSE
    OBVIOUS
  <2>0. Bad \in SUBSET Nat
    BY SizesAssumption
  <2>1. PICK m \in Bad : \A k \in Bad : m <= k
    BY <2>0, Least
  <2>2. CASE m = 1
    BY <2>1, <2>2, <1>6 DEF Records
  <2>3. CASE m # 1
    <3>1. m - 1 \in 1..NumBuckets /\ w[m - 1] \in BucketOrNone
      BY <2>1, <2>3, SizesAssumption
    <3> QED
      BY <3>1, <2>1, <2>3, <1>6 DEF Records, BucketOrNone
  <2> QED
    BY <2>2, <2>3
<1>8. w \in [1..NumBuckets -> BucketOrNone]
  BY <1>5, <1>7
<1> QED
  BY <1>6, <1>8, SizesAssumption DEF IsWalk, w

LEMMA WalkStops ==
  ASSUME tbl \in [Buckets -> Records], NEW x \in Buckets,
         NEW m \in 1..NumBuckets, Walk(x)[m] = NoBucket
  PROVE  \A n \in m..NumBuckets : Walk(x)[n] = NoBucket
<1> DEFINE w == Walk(x)
           Bad == {n \in m..NumBuckets : w[n] # NoBucket}
<1>1. /\ w[m] = NoBucket
      /\ \A n \in 2..NumBuckets : w[n] = IF w[n - 1] = NoBucket THEN NoBucket ELSE tbl[w[n - 1]].next
  BY WalkIs DEF IsWalk
<1> HIDE DEF w
<1> SUFFICES ASSUME Bad # {} PROVE FALSE
  BY DEF w
<1>2. Bad \in SUBSET Nat
  BY SizesAssumption
<1>3. PICK n \in Bad : \A k \in Bad : n <= k
  BY <1>2, Least
<1>4. n - 1 \in m..NumBuckets /\ n \in 2..NumBuckets
  BY <1>1, <1>3, SizesAssumption
<1>5. w[n - 1] = NoBucket
  BY <1>3, <1>4, SizesAssumption
<1> QED
  BY <1>1, <1>3, <1>4, <1>5

LEMMA ListIs ==
  ASSUME tbl \in [Buckets -> Records], NEW x \in Buckets
  PROVE  /\ List(x) \in Seq(Buckets) /\ Len(List(x)) \in 0..NumBuckets
         /\ \A n \in 1..Len(List(x)) : List(x)[n] = Walk(x)[n]
         /\ \A n \in 1..NumBuckets : Walk(x)[n] # NoBucket => n \in 1..Len(List(x))
<1> DEFINE w == Walk(x)
           Off == {n \in 1..NumBuckets : w[n] = NoBucket}
           On == {n \in 1..NumBuckets : w[n] # NoBucket}
<1>1. w \in [1..NumBuckets -> BucketOrNone]
  BY WalkIs DEF IsWalk
<1>2. List(x) = [n \in On |-> w[n]]
  BY DEF List
<1>3. \A m \in Off : \A n \in m..NumBuckets : w[n] = NoBucket
  BY WalkStops
<1> HIDE DEF w
<1>4. PICK l \in 0..NumBuckets : On = 1..l
  <2>1. CASE Off = {}
    BY <2>1, SizesAssumption
  <2>2. CASE Off # {}
    <3>1. Off \in SUBSET Nat
      BY SizesAssumption
    <3>2. PICK m \in Off : \A k \in Off : m <= k
      BY <2>2, <3>1, Least
    <3>3. On = 1..(m - 1)
      BY <3>2, <1>3, SizesAssumption
    <3> QED
      BY <3>2, <3>3, SizesAssumption
  <2> QED
    BY <2>1, <2>2
<1>5. List(x) = [n \in 1..l |-> w[n]] /\ l \in Nat
  BY <1>2, <1>4, SizesAssumption
<1>6. \A n \in 1..l : w[n] \in Buckets
  BY <1>1, <1>4 DEF BucketOrNone
<1>7. List(x) \in Seq(Buckets) /\ Len(List(x)) = l
  BY <1>5, <1>6
<1> QED
  BY <1>4, <1>5, <1>7 DEF w

-----------------------------------------------------------------------------
(* A table and the positions of its entries in the lists of their homes.    *)
Positions == [Buckets -> Nat]
Sound(T, pos) ==
  /\ \A y \in Buckets : T[y].hash # None => T[y].key = T[y].hash
  /\ \A y \in Buckets : T[y].hash = None => T[y].next = NoBucket
  /\ \A y, z \in Buckets : T[y].hash # None /\ T[z].hash = T[y].hash => z = y
  /\ \A x \in Buckets : T[x].first # NoBucket =>
       LET y == T[x].first IN T[y].hash # None /\ Home[T[y].hash] = x /\ pos[y] = 1
  /\ \A y \in Buckets : T[y].next # NoBucket =>
       LET z == T[y].next IN T[z].hash # None /\ Home[T[z].hash] = Home[T[y].hash] /\ pos[z] = pos[y] + 1
  /\ \A y \in Buckets : T[y].hash # None => pos[y] >= 1
  /\ \A y \in Buckets : T[y].hash # None /\ pos[y] = 1 => T[Home[T[y].hash]].first = y
  /\ \A y \in Buckets : T[y].hash # None /\ pos[y] # 1 =>
       \E z \in Buckets : /\ T[z].hash # None /\ Home[T[z].hash] = Home[T[y].hash]
                          /\ pos[z] = pos[y] - 1 /\ T[z].next = y

(* No two entries of a list are at the same position.                       *)
LEMMA OneEach ==
  ASSUME NEW T \in [Buckets -> Records], NEW pos \in Positions, Sound(T, pos),
         NEW y \in Buckets, NEW z \in Buckets, T[y].hash # None, T[z].hash # None,
         Home[T[y].hash] = Home[T[z].hash], pos[y] = pos[z]
  PROVE  y = z
<1> DEFINE Bad == {n \in Nat : \E a, b \in Buckets :
                     /\ a # b /\ T[a].hash # None /\ T[b].hash # None
                     /\ Home[T[a].hash] = Home[T[b].hash] /\ pos[a] = n /\ pos[b] = n}
<1> SUFFICES ASSUME Bad # {} PROVE FALSE
  BY DEF Positions
<1>1. PICK n \in Bad : \A k \in Bad : n <= k
  BY Least
<1>2. PICK a, b \in Buckets :
                     /\ a # b /\ T[a].hash # None /\ T[b].hash # None
                     /\ Home[T[a].hash] = Home[T[b].hash] /\ pos[a] = n /\ pos[b] = n
  BY <1>1
<1>3. n # 1
  BY <1>2 DEF Sound
<1>4. PICK c \in Buckets : /\ T[c].hash # None /\ Home[T[c].hash] = Home[T[a].hash]
                           /\ pos[c] = n - 1 /\ T[c].next = a
  BY <1>2, <1>3 DEF Sound
<1>5. PICK d \in Buckets : /\ T[d].hash # None /\ Home[T[d].hash] = Home[T[b].hash]
                           /\ pos[d] = n - 1 /\ T[d].next = b
  BY <1>2, <1>3 DEF Sound
<1>6. c # d
  BY <1>2, <1>4, <1>5
<1>7. n - 1 \in Nat
  BY <1>4 DEF Positions
<1>8. n - 1 \in Bad
  BY <1>2, <1>4, <1>5, <1>6, <1>7
<1> QED
  BY <1>1, <1>8, <1>7

(* What a walk meets is an entry of the list, at its position.              *)
LEMMA WalkMeets ==
  ASSUME tbl \in [Buckets -> Records], NEW pos \in Positions, Sound(tbl, pos),
         NEW x \in Buckets, NEW n \in 1..NumBuckets, Walk(x)[n] # NoBucket
  PROVE  LET y == Walk(x)[n]
         IN  y \in Buckets /\ tbl[y].hash # None /\ Home[tbl[y].hash] = x /\ pos[y] = n
<1> DEFINE w == Walk(x)
           Good(m) == /\ w[m] \in Buckets /\ tbl[w[m]].hash # None
                      /\ Home[tbl[w[m]].hash] = x /\ pos[w[m]] = m
           Bad == {m \in 1..NumBuckets : w[m] # NoBucket /\ ~ Good(m)}
<1>1. /\ w[1] = tbl[x].first
      /\ \A m \in 2..NumBuckets : w[m] = IF w[m - 1] = NoBucket THEN NoBucket ELSE tbl[w[m - 1]].next
      /\ \A m \in 1..NumBuckets : w[m] # NoBucket => w[m] \in Buckets
  BY WalkIs DEF IsWalk, BucketOrNone
<1> HIDE DEF w
<1> SUFFICES ASSUME Bad # {} PROVE FALSE
  BY DEF w
<1>2. Bad \in SUBSET Nat
  BY SizesAssumption
<1>3. PICK m \in Bad : \A k \in Bad : m <= k
  BY <1>2, Least
<1>4. CASE m = 1
  BY <1>1, <1>3, <1>4 DEF Sound
<1>5. CASE m # 1
  <2>1. m - 1 \in 1..NumBuckets /\ m \in 2..NumBuckets
    BY <1>3, <1>5, SizesAssumption
  <2>2. w[m - 1] # NoBucket /\ w[m] = tbl[w[m - 1]].next
    BY <1>1, <1>3, <2>1
  <2>3. Good(m - 1)
    BY <1>3, <2>1, <2>2, SizesAssumption
  <2> QED
    BY <1>1, <1>3, <2>1, <2>2, <2>3 DEF Sound
<1> QED
  BY <1>4, <1>5

(* Below the position of an entry every position is taken.                  *)
LEMMA AllTaken ==
  ASSUME NEW T \in [Buckets -> Records], NEW pos \in Positions, Sound(T, pos),
         NEW y \in Buckets, T[y].hash # None
  PROVE  \A n \in 1..pos[y] : \E z \in Buckets :
           T[z].hash # None /\ Home[T[z].hash] = Home[T[y].hash] /\ pos[z] = n
<1> DEFINE Taken(n) == \E z \in Buckets :
             T[z].hash # None /\ Home[T[z].hash] = Home[T[y].hash] /\ pos[z] = n
           Bad == {d \in Nat : d < pos[y] /\ ~ Taken(pos[y] - d)}
<1>0. pos[y] \in Nat
  BY DEF Positions
<1> SUFFICES ASSUME Bad # {} PROVE FALSE
  <2> SUFFICES ASSUME NEW n \in 1..pos[y], ~ Taken(n) PROVE FALSE
    OBVIOUS
  <2>1. pos[y] - n \in Bad
    BY <1>0
  <2> QED
    BY <2>1
<1>1. PICK d \in Bad : \A k \in Bad : d <= k
  BY Least
<1>2. d # 0
  BY <1>0, <1>1
<1>3. d - 1 \in Nat /\ d - 1 < pos[y] /\ d - 1 \notin Bad
  BY <1>0, <1>1, <1>2
<1>4. PICK z \in Buckets : T[z].hash # None /\ Home[T[z].hash] = Home[T[y].hash] /\ pos[z] = pos[y] - (d - 1)
  BY <1>3
<1>5. pos[z] # 1
  BY <1>0, <1>1, <1>4
<1>6. PICK v \in Buckets : /\ T[v].hash # None /\ Home[T[v].hash] = Home[T[z].hash]
                           /\ pos[v] = pos[z] - 1
  BY <1>4, <1>5 DEF Sound
<1>7. pos[v] = pos[y] - d
  BY <1>0, <1>1, <1>4, <1>6 DEF Positions
<1> QED
  BY <1>1, <1>4, <1>6, <1>7

(* So no list is longer than the segment.                                   *)
LEMMA PositionBound ==
  ASSUME NEW T \in [Buckets -> Records], NEW pos \in Positions, Sound(T, pos),
         NEW y \in Buckets, T[y].hash # None
  PROVE  pos[y] \in 1..NumBuckets
<1>0. pos[y] \in Nat /\ pos[y] >= 1
  BY DEF Positions, Sound
<1> SUFFICES ASSUME pos[y] > NumBuckets PROVE FALSE
  BY <1>0, SizesAssumption
<1> DEFINE At(n, z) == T[z].hash # None /\ Home[T[z].hash] = Home[T[y].hash] /\ pos[z] = n
           f == [n \in 1..pos[y] |-> CHOOSE z \in Buckets : At(n, z)]
<1>1. \A n \in 1..pos[y] : f[n] \in Buckets /\ At(n, f[n])
  BY AllTaken
<1>2. f \in [1..pos[y] -> Buckets]
  BY <1>1
<1>3. IsFiniteSet(1..pos[y]) /\ Cardinality(1..pos[y]) = pos[y]
  BY <1>0, FS_Interval
<1>4. IsFiniteSet(Buckets) /\ Cardinality(Buckets) = NumBuckets
  BY SizesAssumption, FS_Interval DEF Buckets
<1> HIDE DEF f
<1> DEFINE S == 1..pos[y]
<1>5. IsFiniteSet(S) /\ Cardinality(Buckets) < Cardinality(S) /\ f \in [S -> Buckets]
  BY <1>2, <1>3, <1>4
<1> HIDE DEF S
<1>6. \E m, n \in S : m # n /\ f[m] = f[n]
  BY <1>4, <1>5, FS_PigeonHole
<1> QED
  BY <1>1, <1>6 DEF S

(* A walk meets every entry of the list.                                    *)
LEMMA WalkFinds ==
  ASSUME tbl \in [Buckets -> Records], NEW pos \in Positions, Sound(tbl, pos),
         NEW y \in Buckets, tbl[y].hash # None
  PROVE  Walk(Home[tbl[y].hash])[pos[y]] = y
<1> DEFINE x == Home[tbl[y].hash]
           w == Walk(x)
           Bad == {m \in Nat : \E z \in Buckets : /\ tbl[z].hash # None /\ Home[tbl[z].hash] = x
                                                  /\ pos[z] = m /\ w[m] # z}
<1>0. x \in Buckets
  BY KeysAssumption DEF Records
<1>1. /\ w[1] = tbl[x].first
      /\ \A m \in 2..NumBuckets : w[m] = IF w[m - 1] = NoBucket THEN NoBucket ELSE tbl[w[m - 1]].next
  BY <1>0, WalkIs DEF IsWalk
<1> HIDE DEF w
<1> SUFFICES ASSUME Bad # {} PROVE FALSE
  BY DEF w, Positions
<1>2. PICK m \in Bad : \A k \in Bad : m <= k
  BY Least
<1>3. PICK z \in Buckets : tbl[z].hash # None /\ Home[tbl[z].hash] = x /\ pos[z] = m /\ w[m] # z
  BY <1>2
<1>4. m \in 1..NumBuckets
  BY <1>3, PositionBound
<1>5. m # 1
  BY <1>1, <1>3 DEF Sound
<1>6. PICK v \in Buckets : /\ tbl[v].hash # None /\ Home[tbl[v].hash] = x
                           /\ pos[v] = m - 1 /\ tbl[v].next = z
  BY <1>3, <1>5 DEF Sound
<1>7. w[m - 1] = v
  BY <1>2, <1>4, <1>5, <1>6, SizesAssumption
<1>8. v # NoBucket /\ m \in 2..NumBuckets
  BY <1>4, <1>5, SizesAssumption DEF Buckets, NoBucket
<1> QED
  BY <1>1, <1>3, <1>6, <1>7, <1>8

(* The list of a bucket has the entries whose home it is, in order.         *)
LEMMA ListEntries ==
  ASSUME tbl \in [Buckets -> Records], NEW pos \in Positions, Sound(tbl, pos), NEW x \in Buckets
  PROVE  /\ List(x) \in Seq(Buckets) /\ Len(List(x)) \in Nat
         /\ \A n \in 1..Len(List(x)) :
              LET y == List(x)[n]
              IN  y \in Buckets /\ tbl[y].hash # None /\ Home[tbl[y].hash] = x /\ pos[y] = n
         /\ \A y \in Buckets : tbl[y].hash # None /\ Home[tbl[y].hash] = x =>
              pos[y] \in 1..Len(List(x)) /\ List(x)[pos[y]] = y
<1>1. /\ List(x) \in Seq(Buckets) /\ Len(List(x)) \in 0..NumBuckets
      /\ \A n \in 1..Len(List(x)) : List(x)[n] = Walk(x)[n]
      /\ \A n \in 1..NumBuckets : Walk(x)[n] # NoBucket => n \in 1..Len(List(x))
  BY ListIs
<1>2. \A n \in 1..Len(List(x)) : n \in 1..NumBuckets /\ List(x)[n] # NoBucket /\ List(x)[n] \in Buckets
  BY <1>1, SizesAssumption DEF Buckets, NoBucket
<1>3. ASSUME NEW y \in Buckets, tbl[y].hash # None, Home[tbl[y].hash] = x
      PROVE  pos[y] \in 1..Len(List(x)) /\ List(x)[pos[y]] = y
  <2>1. Walk(x)[pos[y]] = y
    BY <1>3, WalkFinds
  <2>2. pos[y] \in 1..NumBuckets
    BY <1>3, PositionBound
  <2>3. y # NoBucket
    BY DEF Buckets, NoBucket
  <2> QED
    BY <1>1, <2>1, <2>2, <2>3
<1>4. \A n \in 1..Len(List(x)) :
        LET y == List(x)[n]
        IN  y \in Buckets /\ tbl[y].hash # None /\ Home[tbl[y].hash] = x /\ pos[y] = n
  BY <1>1, <1>2, WalkMeets
<1> QED
  BY <1>1, <1>3, <1>4, SizesAssumption

LEMMA SoundLists ==
  ASSUME tbl \in [Buckets -> Records], \E pos \in Positions : Sound(tbl, pos)
  PROVE  ListsSound
<1> PICK pos \in Positions : Sound(tbl, pos)
  OBVIOUS
<1>1. \A x \in Used : tbl[x].key = tbl[x].hash /\ x \in Members(Home[tbl[x].hash])
  <2> SUFFICES ASSUME NEW x \in Buckets, tbl[x].hash # None
               PROVE  tbl[x].key = tbl[x].hash /\ x \in Members(Home[tbl[x].hash])
    BY DEF Used
  <2>1. Home[tbl[x].hash] \in Buckets
    BY KeysAssumption DEF Records
  <2>2. pos[x] \in 1..Len(List(Home[tbl[x].hash])) /\ List(Home[tbl[x].hash])[pos[x]] = x
    BY <2>1, ListEntries
  <2> QED
    BY <2>2 DEF Sound, Members
<1>2. \A x, y \in Used : tbl[x].hash = tbl[y].hash => x = y
  BY DEF Used, Sound
<1>3. \A x \in Buckets : \A y \in Members(x) : y \in Used /\ Home[tbl[y].hash] = x
  BY ListEntries DEF Members, Used
<1>4. \A x \in Buckets : tbl[x].next # NoBucket => x \in Used
  BY DEF Sound, Used
<1> QED
  BY <1>1, <1>2, <1>3, <1>4 DEF ListsSound

(* A sound table, as the proofs below look at it.                           *)
LEMMA SoundFacts ==
  ASSUME NEW T \in [Buckets -> Records], NEW pos \in Positions, Sound(T, pos)
  PROVE  /\ \A w \in Buckets : w # NoBucket /\ T[w].first \in BucketOrNone /\ T[w].next \in BucketOrNone
         /\ \A w \in Buckets : pos[w] \in Nat /\ (T[w].hash # None => Home[T[w].hash] \in Buckets /\ pos[w] >= 1)
         /\ \A w \in Buckets : T[w].next # NoBucket =>
              LET z == T[w].next IN /\ z \in Buckets /\ T[w].hash # None /\ T[z].hash # None
                                    /\ Home[T[z].hash] = Home[T[w].hash] /\ pos[z] = pos[w] + 1
         /\ \A w \in Buckets : T[w].first # NoBucket =>
              LET z == T[w].first IN z \in Buckets /\ T[z].hash # None /\ Home[T[z].hash] = w /\ pos[z] = 1
         /\ \A w, u \in Buckets : (/\ T[w].hash # None /\ T[u].hash # None
                                   /\ Home[T[w].hash] = Home[T[u].hash] /\ pos[w] = pos[u]) => w = u
<1>1. \A w \in Buckets : w # NoBucket
  BY DEF Buckets, NoBucket
<1>2. \A w \in Buckets : T[w].first \in BucketOrNone /\ T[w].next \in BucketOrNone
  BY DEF Records
<1>3. \A w \in Buckets : pos[w] \in Nat
  BY DEF Positions
<1>4. \A w \in Buckets : T[w].hash # None => Home[T[w].hash] \in Buckets
  BY KeysAssumption DEF Records
<1>5. \A w \in Buckets : T[w].hash # None => pos[w] >= 1
  BY DEF Sound
<1>6. \A w \in Buckets : T[w].next # NoBucket =>
              LET z == T[w].next IN /\ z \in Buckets /\ T[w].hash # None /\ T[z].hash # None
                                    /\ Home[T[z].hash] = Home[T[w].hash] /\ pos[z] = pos[w] + 1
  BY <1>2 DEF Sound, BucketOrNone
<1>7. \A w \in Buckets : T[w].first # NoBucket =>
              LET z == T[w].first IN z \in Buckets /\ T[z].hash # None /\ Home[T[z].hash] = w /\ pos[z] = 1
  BY <1>2 DEF Sound, BucketOrNone
<1>8. \A w, u \in Buckets : (/\ T[w].hash # None /\ T[u].hash # None
                             /\ Home[T[w].hash] = Home[T[u].hash] /\ pos[w] = pos[u]) => w = u
  <2> SUFFICES ASSUME NEW w \in Buckets, NEW u \in Buckets, T[w].hash # None, T[u].hash # None,
                      Home[T[w].hash] = Home[T[u].hash], pos[w] = pos[u]
               PROVE  w = u
    OBVIOUS
  <2> QED
    BY OneEach
<1> QED
  BY <1>1, <1>2, <1>3, <1>4, <1>5, <1>6, <1>7, <1>8

-----------------------------------------------------------------------------
(* What the updates make of a sound table.  An entry is put into y as the   *)
(* first one of the list of x, or after the entry in v.                     *)
PutFirst(T, x, y, k) ==
  [w \in Buckets |-> [first |-> IF w = x THEN y ELSE T[w].first,
                      next  |-> IF w = y THEN T[x].first ELSE T[w].next,
                      hash  |-> IF w = y THEN k ELSE T[w].hash,
                      key   |-> IF w = y THEN k ELSE T[w].key]]
PutAfter(T, v, y, k) ==
  [w \in Buckets |-> [first |-> T[w].first,
                      next  |-> IF w = v THEN y ELSE IF w = y THEN T[v].next ELSE T[w].next,
                      hash  |-> IF w = y THEN k ELSE T[w].hash,
                      key   |-> IF w = y THEN k ELSE T[w].key]]

(* The entry in y is taken out, which is the first one of the list of x or  *)
(* comes after the one in v.                                                *)
DropFirst(T, x, y) ==
  [w \in Buckets |-> [first |-> IF w = x THEN T[y].next ELSE T[w].first,
                      next  |-> IF w = y THEN NoBucket ELSE T[w].next,
                      hash  |-> IF w = y THEN None ELSE T[w].hash,
                      key   |-> IF w = y THEN None ELSE T[w].key]]
DropAfter(T, v, y) ==
  [w \in Buckets |-> [first |-> T[w].first,
                      next  |-> IF w = v THEN T[y].next ELSE IF w = y THEN NoBucket ELSE T[w].next,
                      hash  |-> IF w = y THEN None ELSE T[w].hash,
                      key   |-> IF w = y THEN None ELSE T[w].key]]

(* The entry in z moves to y and keeps its place in its list.               *)
MoveFirst(T, x, y, z) ==
  [w \in Buckets |-> [first |-> IF w = x THEN y ELSE T[w].first,
                      next  |-> IF w = y THEN T[z].next ELSE IF w = z THEN NoBucket ELSE T[w].next,
                      hash  |-> IF w = y THEN T[z].hash ELSE IF w = z THEN None ELSE T[w].hash,
                      key   |-> IF w = y THEN T[z].hash ELSE IF w = z THEN None ELSE T[w].key]]
MoveAfter(T, v, y, z) ==
  [w \in Buckets |-> [first |-> T[w].first,
                      next  |-> IF w = v THEN y ELSE IF w = y THEN T[z].next
                                ELSE IF w = z THEN NoBucket ELSE T[w].next,
                      hash  |-> IF w = y THEN T[z].hash ELSE IF w = z THEN None ELSE T[w].hash,
                      key   |-> IF w = y THEN T[z].hash ELSE IF w = z THEN None ELSE T[w].key]]

LEMMA PutFirstSound ==
  ASSUME NEW T \in [Buckets -> Records], NEW pos \in Positions, Sound(T, pos),
         NEW y \in Buckets, NEW k \in Keys, T[y].hash = None, \A w \in Buckets : T[w].hash # k
  PROVE  LET U == PutFirst(T, Home[k], y, k)
         IN  U \in [Buckets -> Records] /\ \E p2 \in Positions : Sound(U, p2)
<1> DEFINE x == Home[k]
           U == PutFirst(T, x, y, k)
           q == [w \in Buckets |-> IF w = y THEN 1
                   ELSE IF T[w].hash # None /\ Home[T[w].hash] = x THEN pos[w] + 1 ELSE pos[w]]
<1>1. x \in Buckets /\ k # None /\ y # NoBucket
  BY KeysAssumption DEF None, Buckets, NoBucket
<1>2. U \in [Buckets -> Records] /\ q \in Positions
  BY <1>1 DEF PutFirst, Records, Positions, BucketOrNone
<1>3. \A w \in Buckets : /\ U[w].first = IF w = x THEN y ELSE T[w].first
                         /\ U[w].next = IF w = y THEN T[x].first ELSE T[w].next
                         /\ U[w].hash = IF w = y THEN k ELSE T[w].hash
                         /\ U[w].key = IF w = y THEN k ELSE T[w].key
  BY DEF PutFirst
<1>4. \A w \in Buckets : q[w] = IF w = y THEN 1
                   ELSE IF T[w].hash # None /\ Home[T[w].hash] = x THEN pos[w] + 1 ELSE pos[w]
  OBVIOUS
<1>5. \A w \in Buckets : /\ pos[w] \in Nat /\ T[w].first \in BucketOrNone /\ T[w].next \in BucketOrNone
                         /\ T[w].hash # None => Home[T[w].hash] \in Buckets
  BY KeysAssumption DEF Positions, Records
<1> HIDE DEF x, U, q
<1>6. Sound(U, q)
  <2>1. \A w \in Buckets : U[w].hash # None => U[w].key = U[w].hash
    BY <1>3 DEF Sound
  <2>2. \A w \in Buckets : U[w].hash = None => U[w].next = NoBucket
    BY <1>1, <1>3 DEF Sound
  <2>3. \A w, z \in Buckets : U[w].hash # None /\ U[z].hash = U[w].hash => z = w
    BY <1>3 DEF Sound
  <2>4. \A w \in Buckets : U[w].first # NoBucket =>
       LET z == U[w].first IN U[z].hash # None /\ Home[U[z].hash] = w /\ q[z] = 1
    BY <1>1, <1>3, <1>4, <1>5 DEF Sound, BucketOrNone, x
  <2>5. \A w \in Buckets : U[w].next # NoBucket =>
       LET z == U[w].next IN U[z].hash # None /\ Home[U[z].hash] = Home[U[w].hash] /\ q[z] = q[w] + 1
    BY <1>1, <1>3, <1>4, <1>5 DEF Sound, BucketOrNone, x
  <2>6. \A w \in Buckets : U[w].hash # None => q[w] >= 1
    BY <1>3, <1>4, <1>5 DEF Sound
  <2>7. \A w \in Buckets : U[w].hash # None /\ q[w] = 1 => U[Home[U[w].hash]].first = w
    BY <1>1, <1>3, <1>4, <1>5 DEF Sound, x
  <2>8. \A w \in Buckets : U[w].hash # None /\ q[w] # 1 =>
       \E z \in Buckets : /\ U[z].hash # None /\ Home[U[z].hash] = Home[U[w].hash]
                          /\ q[z] = q[w] - 1 /\ U[z].next = w
    <3> SUFFICES ASSUME NEW w \in Buckets, T[w].hash # None, w # y, q[w] # 1
                 PROVE  \E z \in Buckets : /\ U[z].hash # None /\ Home[U[z].hash] = Home[T[w].hash]
                                           /\ q[z] = q[w] - 1 /\ U[z].next = w
      BY <1>3, <1>4
    <3>1. CASE Home[T[w].hash] = x /\ pos[w] = 1
      BY <1>1, <1>3, <1>4, <3>1 DEF Sound, x
    <3>2. CASE ~(Home[T[w].hash] = x /\ pos[w] = 1)
      <4>1. pos[w] # 1
        BY <1>4, <3>2
      <4>2. PICK z \in Buckets : /\ T[z].hash # None /\ Home[T[z].hash] = Home[T[w].hash]
                                 /\ pos[z] = pos[w] - 1 /\ T[z].next = w
        BY <4>1 DEF Sound
      <4> QED
        BY <4>2, <1>3, <1>4, <1>5
    <3> QED
      BY <3>1, <3>2
  <2> QED
    BY <2>1, <2>2, <2>3, <2>4, <2>5, <2>6, <2>7, <2>8 DEF Sound
<1> QED
  BY <1>2, <1>6 DEF x, U

LEMMA PutAfterSound ==
  ASSUME NEW T \in [Buckets -> Records], NEW pos \in Positions, Sound(T, pos),
         NEW y \in Buckets, NEW k \in Keys, T[y].hash = None, \A w \in Buckets : T[w].hash # k,
         NEW v \in Buckets, T[v].hash # None, Home[T[v].hash] = Home[k]
  PROVE  LET U == PutAfter(T, v, y, k)
         IN  U \in [Buckets -> Records] /\ \E p2 \in Positions : Sound(U, p2)
<1> DEFINE x == Home[k]
           U == PutAfter(T, v, y, k)
           Later(w) == T[w].hash # None /\ Home[T[w].hash] = x /\ pos[w] > pos[v]
           q == [w \in Buckets |-> IF w = y THEN pos[v] + 1 ELSE IF Later(w) THEN pos[w] + 1 ELSE pos[w]]
<1>1. x \in Buckets /\ k # None /\ y # NoBucket /\ v # y
  BY KeysAssumption DEF None, Buckets, NoBucket
<1>2. U \in [Buckets -> Records] /\ q \in Positions
  BY <1>1 DEF PutAfter, Records, Positions, BucketOrNone
<1>3. \A w \in Buckets : /\ U[w].first = T[w].first
                         /\ U[w].next = IF w = v THEN y ELSE IF w = y THEN T[v].next ELSE T[w].next
                         /\ U[w].hash = IF w = y THEN k ELSE T[w].hash
                         /\ U[w].key = IF w = y THEN k ELSE T[w].key
  BY DEF PutAfter
<1>4. \A w \in Buckets : q[w] = IF w = y THEN pos[v] + 1 ELSE IF Later(w) THEN pos[w] + 1 ELSE pos[w]
  OBVIOUS
<1>5. \A w \in Buckets : /\ pos[w] \in Nat /\ T[w].first \in BucketOrNone /\ T[w].next \in BucketOrNone
                         /\ T[w].hash # None => Home[T[w].hash] \in Buckets
  BY KeysAssumption DEF Positions, Records
<1>6. pos[v] >= 1
  BY DEF Sound
<1>7. \A w \in Buckets : T[w].hash # None /\ Home[T[w].hash] = x /\ pos[w] = pos[v] => w = v
  BY OneEach
<1> HIDE DEF x, U, q
<1>8. Sound(U, q)
  <2>1. \A w \in Buckets : U[w].hash # None => U[w].key = U[w].hash
    BY <1>3 DEF Sound
  <2>2. \A w \in Buckets : U[w].hash = None => U[w].next = NoBucket
    BY <1>1, <1>3 DEF Sound
  <2>3. \A w, z \in Buckets : U[w].hash # None /\ U[z].hash = U[w].hash => z = w
    BY <1>3 DEF Sound
  <2>4. \A w \in Buckets : U[w].first # NoBucket =>
       LET z == U[w].first IN U[z].hash # None /\ Home[U[z].hash] = w /\ q[z] = 1
    <3> SUFFICES ASSUME NEW w \in Buckets, U[w].first # NoBucket
                 PROVE  LET z == U[w].first IN U[z].hash # None /\ Home[U[z].hash] = w /\ q[z] = 1
      OBVIOUS
    <3>1. PICK z \in Buckets : z = T[w].first /\ T[z].hash # None /\ Home[T[z].hash] = w /\ pos[z] = 1
      BY <1>3, <1>5 DEF Sound, BucketOrNone
    <3> QED
      BY <3>1, <1>3, <1>4, <1>5, <1>6
  <2>5. \A w \in Buckets : U[w].next # NoBucket =>
       LET z == U[w].next IN U[z].hash # None /\ Home[U[z].hash] = Home[U[w].hash] /\ q[z] = q[w] + 1
    <3> SUFFICES ASSUME NEW w \in Buckets, U[w].next # NoBucket
                 PROVE  LET z == U[w].next
                        IN  U[z].hash # None /\ Home[U[z].hash] = Home[U[w].hash] /\ q[z] = q[w] + 1
      OBVIOUS
    <3>1. CASE w = v
      BY <3>1, <1>1, <1>3, <1>4, <1>5, <1>6 DEF x
    <3>2. CASE w = y
      <4>1. PICK z \in Buckets : /\ z = T[v].next /\ T[z].hash # None
                                 /\ Home[T[z].hash] = x /\ pos[z] = pos[v] + 1
        BY <3>2, <1>1, <1>3, <1>5 DEF Sound, BucketOrNone, x
      <4> QED
        BY <4>1, <3>2, <1>1, <1>3, <1>4, <1>5 DEF x
    <3>3. CASE w # v /\ w # y
      <4>1. PICK z \in Buckets : /\ z = T[w].next /\ T[z].hash # None /\ T[w].hash # None
                                 /\ Home[T[z].hash] = Home[T[w].hash] /\ pos[z] = pos[w] + 1
        BY <3>3, <1>1, <1>3, <1>5 DEF Sound, BucketOrNone
      <4> QED
        BY <4>1, <3>3, <1>1, <1>3, <1>4, <1>5, <1>7 DEF x
    <3> QED
      BY <3>1, <3>2, <3>3
  <2>6. \A w \in Buckets : U[w].hash # None => q[w] >= 1
    BY <1>3, <1>4, <1>5, <1>6 DEF Sound
  <2>7. \A w \in Buckets : U[w].hash # None /\ q[w] = 1 => U[Home[U[w].hash]].first = w
    BY <1>1, <1>3, <1>4, <1>5, <1>6 DEF Sound, x
  <2>8. \A w \in Buckets : U[w].hash # None /\ q[w] # 1 =>
       \E z \in Buckets : /\ U[z].hash # None /\ Home[U[z].hash] = Home[U[w].hash]
                          /\ q[z] = q[w] - 1 /\ U[z].next = w
    <3> SUFFICES ASSUME NEW w \in Buckets, U[w].hash # None, q[w] # 1
                 PROVE  \E z \in Buckets : /\ U[z].hash # None /\ Home[U[z].hash] = Home[U[w].hash]
                                           /\ q[z] = q[w] - 1 /\ U[z].next = w
      OBVIOUS
    <3>1. CASE w = y
      BY <3>1, <1>1, <1>3, <1>4, <1>5, <1>6 DEF x
    <3>2. CASE w # y
      <4>1. T[w].hash # None /\ U[w].hash = T[w].hash /\ pos[w] # 1
        BY <3>2, <1>3, <1>4, <1>5, <1>6
      <4>2. PICK z \in Buckets : /\ T[z].hash # None /\ Home[T[z].hash] = Home[T[w].hash]
                                 /\ pos[z] = pos[w] - 1 /\ T[z].next = w
        BY <4>1 DEF Sound
      <4>3. CASE z = v
        <5>1. U[y].hash # None /\ Home[U[y].hash] = Home[U[w].hash] /\ q[y] = q[w] - 1 /\ U[y].next = w
          BY <4>1, <4>2, <4>3, <3>2, <1>1, <1>3, <1>4, <1>5 DEF x
        <5> QED
          BY <5>1
      <4>4. CASE z # v
        <5>1. U[z].hash # None /\ Home[U[z].hash] = Home[U[w].hash] /\ U[z].next = w
          BY <4>1, <4>2, <4>4, <3>2, <1>1, <1>3
        <5>2. q[z] = q[w] - 1
          BY <4>1, <4>2, <4>4, <3>2, <1>3, <1>4, <1>5, <1>7
        <5> QED
          BY <5>1, <5>2
      <4> QED
        BY <4>3, <4>4
    <3> QED
      BY <3>1, <3>2
  <2> QED
    BY <2>1, <2>2, <2>3, <2>4, <2>5, <2>6, <2>7, <2>8 DEF Sound
<1> QED
  BY <1>2, <1>8 DEF x, U

LEMMA DropFirstSound ==
  ASSUME NEW T \in [Buckets -> Records], NEW pos \in Positions, Sound(T, pos),
         NEW y \in Buckets, T[y].hash # None, T[Home[T[y].hash]].first = y
  PROVE  LET U == DropFirst(T, Home[T[y].hash], y)
         IN  U \in [Buckets -> Records] /\ \E p2 \in Positions : Sound(U, p2)
<1> DEFINE U == DropFirst(T, Home[T[y].hash], y)
           x == Home[T[y].hash]
           q == [w \in Buckets |-> IF T[w].hash # None /\ Home[T[w].hash] = x /\ pos[w] > pos[y] THEN pos[w] - 1 ELSE pos[w]]
<1>1. x \in Buckets /\ y # NoBucket /\ pos[y] = 1
  BY SoundFacts DEF Sound
<1>2. U \in [Buckets -> Records] /\ q \in Positions
  BY <1>1 DEF DropFirst, Records, Positions, BucketOrNone
<1>3. \A w \in Buckets : /\ U[w].first = IF w = x THEN T[y].next ELSE T[w].first
                         /\ U[w].next = IF w = y THEN NoBucket ELSE T[w].next
                         /\ U[w].hash = IF w = y THEN None ELSE T[w].hash
                         /\ U[w].key = IF w = y THEN None ELSE T[w].key
  BY DEF DropFirst
<1>4. \A w \in Buckets : q[w] = IF T[w].hash # None /\ Home[T[w].hash] = x /\ pos[w] > pos[y] THEN pos[w] - 1 ELSE pos[w]
  OBVIOUS
<1>5. \A w \in Buckets : /\ pos[w] \in Nat /\ T[w].first \in BucketOrNone /\ T[w].next \in BucketOrNone
                         /\ T[w].hash # None => Home[T[w].hash] \in Buckets /\ pos[w] >= 1
  BY SoundFacts
<1>6. \A w \in Buckets : T[w].next # NoBucket =>
        LET z == T[w].next IN /\ z \in Buckets /\ T[w].hash # None /\ T[z].hash # None
                              /\ Home[T[z].hash] = Home[T[w].hash] /\ pos[z] = pos[w] + 1
  BY SoundFacts
<1>7. \A w \in Buckets : T[w].first # NoBucket =>
        LET z == T[w].first IN z \in Buckets /\ T[z].hash # None /\ Home[T[z].hash] = w /\ pos[z] = 1
  BY SoundFacts
<1>8. \A w, u \in Buckets : (/\ T[w].hash # None /\ T[u].hash # None
                            /\ Home[T[w].hash] = Home[T[u].hash] /\ pos[w] = pos[u]) => w = u
  BY SoundFacts
<1> HIDE DEF U, q
<1>9. Sound(U, q)
  <2>1. \A w \in Buckets : U[w].hash # None => U[w].key = U[w].hash
    BY <1>3 DEF Sound
  <2>2. \A w \in Buckets : U[w].hash = None => U[w].next = NoBucket
    BY <1>1, <1>3 DEF Sound
  <2>3. \A w, u \in Buckets : U[w].hash # None /\ U[u].hash = U[w].hash => u = w
    BY <1>1, <1>3 DEF Sound
  <2>4. \A w \in Buckets : U[w].first # NoBucket =>
       LET u == U[w].first IN U[u].hash # None /\ Home[U[u].hash] = w /\ q[u] = 1
    <3> SUFFICES ASSUME NEW w \in Buckets, U[w].first # NoBucket
                 PROVE  LET u == U[w].first IN U[u].hash # None /\ Home[U[u].hash] = w /\ q[u] = 1
      OBVIOUS
    <3>1. CASE w = x
      <4> DEFINE u == T[y].next
      <4>1. u \in Buckets /\ T[u].hash # None /\ Home[T[u].hash] = x /\ pos[u] = 2
        BY <3>1, <1>1, <1>3, <1>6
      <4> HIDE DEF u
      <4> QED
        BY <4>1, <3>1, <1>1, <1>3, <1>4 DEF u
    <3>2. CASE w # x
      <4> DEFINE u == T[w].first
      <4>1. u \in Buckets /\ T[u].hash # None /\ Home[T[u].hash] = w /\ pos[u] = 1 /\ U[w].first = u
        BY <3>2, <1>3, <1>7
      <4> HIDE DEF u, x
      <4>2. u # y
        BY <4>1, <3>2 DEF x
      <4> QED
        BY <4>1, <4>2, <3>2, <1>3, <1>4
    <3> QED
      BY <3>1, <3>2
  <2>5. \A w \in Buckets : U[w].next # NoBucket =>
       LET u == U[w].next IN U[u].hash # None /\ Home[U[u].hash] = Home[U[w].hash] /\ q[u] = q[w] + 1
    <3> SUFFICES ASSUME NEW w \in Buckets, U[w].next # NoBucket
                 PROVE  LET u == U[w].next
                        IN  U[u].hash # None /\ Home[U[u].hash] = Home[U[w].hash] /\ q[u] = q[w] + 1
      OBVIOUS
    <3>1. w # y /\ T[w].next # NoBucket /\ U[w].next = T[w].next
      BY <1>3
    <3> QED
      BY <3>1, <1>1, <1>3, <1>4, <1>5, <1>6, <1>7, <1>8
  <2>6. \A w \in Buckets : U[w].hash # None => q[w] >= 1
    BY <1>1, <1>3, <1>4, <1>5, <1>6, <1>8
  <2>7. \A w \in Buckets : U[w].hash # None /\ q[w] = 1 => U[Home[U[w].hash]].first = w
    <3> SUFFICES ASSUME NEW w \in Buckets, U[w].hash # None, q[w] = 1
                 PROVE  U[Home[U[w].hash]].first = w
      OBVIOUS
    <3>1. w # y /\ T[w].hash # None /\ U[w].hash = T[w].hash
      BY <1>3
    <3>2. CASE pos[w] = 1
      BY <3>1, <3>2, <1>1, <1>3, <1>4, <1>5, <1>6, <1>7, <1>8 DEF Sound
    <3>3. CASE pos[w] # 1
      <4>1. pos[w] = 2 /\ Home[T[w].hash] = x
        BY <3>1, <3>3, <1>1, <1>4, <1>5
      <4>2. PICK u \in Buckets : /\ T[u].hash # None /\ Home[T[u].hash] = Home[T[w].hash]
                                 /\ pos[u] = pos[w] - 1 /\ T[u].next = w
        BY <3>1, <3>3 DEF Sound
      <4>3. u = y
        BY <4>1, <4>2, <1>1, <1>8
      <4> QED
        BY <4>1, <4>2, <4>3, <3>1, <1>1, <1>3
    <3> QED
      BY <3>2, <3>3
  <2>8. \A w \in Buckets : U[w].hash # None /\ q[w] # 1 =>
       \E u \in Buckets : /\ U[u].hash # None /\ Home[U[u].hash] = Home[U[w].hash]
                          /\ q[u] = q[w] - 1 /\ U[u].next = w
    <3> SUFFICES ASSUME NEW w \in Buckets, U[w].hash # None, q[w] # 1
                 PROVE  \E u \in Buckets : /\ U[u].hash # None /\ Home[U[u].hash] = Home[U[w].hash]
                                           /\ q[u] = q[w] - 1 /\ U[u].next = w
      OBVIOUS
    <3>1. w # y /\ T[w].hash # None /\ U[w].hash = T[w].hash /\ pos[w] # 1
      BY <1>1, <1>3, <1>4, <1>5, <1>8
    <3>2. PICK u \in Buckets : /\ T[u].hash # None /\ Home[T[u].hash] = Home[T[w].hash]
                                 /\ pos[u] = pos[w] - 1 /\ T[u].next = w
      BY <3>1 DEF Sound
    <3>3. u # y
      BY <3>1, <3>2, <1>1, <1>4, <1>5
    <3> QED
      BY <3>1, <3>2, <3>3, <1>1, <1>3, <1>4, <1>5, <1>6, <1>7, <1>8
  <2> QED
    BY <2>1, <2>2, <2>3, <2>4, <2>5, <2>6, <2>7, <2>8 DEF Sound
<1> QED
  BY <1>2, <1>9 DEF U

LEMMA DropAfterSound ==
  ASSUME NEW T \in [Buckets -> Records], NEW pos \in Positions, Sound(T, pos),
         NEW y \in Buckets, T[y].hash # None, NEW v \in Buckets, T[v].next = y
  PROVE  LET U == DropAfter(T, v, y)
         IN  U \in [Buckets -> Records] /\ \E p2 \in Positions : Sound(U, p2)
<1> DEFINE U == DropAfter(T, v, y)
           x == Home[T[y].hash]
           q == [w \in Buckets |-> IF T[w].hash # None /\ Home[T[w].hash] = x /\ pos[w] > pos[y] THEN pos[w] - 1 ELSE pos[w]]
<1>1. /\ x \in Buckets /\ y # NoBucket /\ v # y /\ T[v].hash # None
      /\ Home[T[v].hash] = x /\ pos[v] \in Nat /\ pos[v] >= 1 /\ pos[y] = pos[v] + 1
  BY SoundFacts DEF Sound
<1>2. U \in [Buckets -> Records] /\ q \in Positions
  BY <1>1 DEF DropAfter, Records, Positions, BucketOrNone
<1>3. \A w \in Buckets : /\ U[w].first = T[w].first
                         /\ U[w].next = IF w = v THEN T[y].next ELSE IF w = y THEN NoBucket ELSE T[w].next
                         /\ U[w].hash = IF w = y THEN None ELSE T[w].hash
                         /\ U[w].key = IF w = y THEN None ELSE T[w].key
  BY DEF DropAfter
<1>4. \A w \in Buckets : q[w] = IF T[w].hash # None /\ Home[T[w].hash] = x /\ pos[w] > pos[y] THEN pos[w] - 1 ELSE pos[w]
  OBVIOUS
<1>5. \A w \in Buckets : /\ pos[w] \in Nat /\ T[w].first \in BucketOrNone /\ T[w].next \in BucketOrNone
                         /\ T[w].hash # None => Home[T[w].hash] \in Buckets /\ pos[w] >= 1
  BY SoundFacts
<1>6. \A w \in Buckets : T[w].next # NoBucket =>
        LET z == T[w].next IN /\ z \in Buckets /\ T[w].hash # None /\ T[z].hash # None
                              /\ Home[T[z].hash] = Home[T[w].hash] /\ pos[z] = pos[w] + 1
  BY SoundFacts
<1>7. \A w \in Buckets : T[w].first # NoBucket =>
        LET z == T[w].first IN z \in Buckets /\ T[z].hash # None /\ Home[T[z].hash] = w /\ pos[z] = 1
  BY SoundFacts
<1>8. \A w, u \in Buckets : (/\ T[w].hash # None /\ T[u].hash # None
                            /\ Home[T[w].hash] = Home[T[u].hash] /\ pos[w] = pos[u]) => w = u
  BY SoundFacts
<1> HIDE DEF U, q
<1>9. Sound(U, q)
  <2>1. \A w \in Buckets : U[w].hash # None => U[w].key = U[w].hash
    BY <1>3 DEF Sound
  <2>2. \A w \in Buckets : U[w].hash = None => U[w].next = NoBucket
    BY <1>1, <1>3 DEF Sound
  <2>3. \A w, u \in Buckets : U[w].hash # None /\ U[u].hash = U[w].hash => u = w
    BY <1>1, <1>3 DEF Sound
  <2>4. \A w \in Buckets : U[w].first # NoBucket =>
       LET u == U[w].first IN U[u].hash # None /\ Home[U[u].hash] = w /\ q[u] = 1
    BY <1>1, <1>3, <1>4, <1>5, <1>6, <1>7
  <2>5. \A w \in Buckets : U[w].next # NoBucket =>
       LET u == U[w].next IN U[u].hash # None /\ Home[U[u].hash] = Home[U[w].hash] /\ q[u] = q[w] + 1
    <3> SUFFICES ASSUME NEW w \in Buckets, U[w].next # NoBucket
                 PROVE  LET u == U[w].next
                        IN  U[u].hash # None /\ Home[U[u].hash] = Home[U[w].hash] /\ q[u] = q[w] + 1
      OBVIOUS
    <3>1. CASE w = v
      BY <3>1, <1>1, <1>3, <1>4, <1>5, <1>6, <1>7, <1>8
    <3>2. CASE w # v
      <4>1. w # y /\ T[w].next # NoBucket /\ U[w].next = T[w].next
        BY <3>2, <1>3
      <4> DEFINE u == T[w].next
      <4>2. /\ u \in Buckets /\ T[w].hash # None /\ T[u].hash # None
            /\ Home[T[u].hash] = Home[T[w].hash] /\ pos[u] = pos[w] + 1
        BY <4>1, <1>6
      <4> HIDE DEF u
      <4>3. u # y
        BY <4>2, <3>2, <1>1, <1>5, <1>8
      <4>4. q[u] = q[w] + 1
        BY <4>1, <4>2, <4>3, <1>1, <1>4, <1>5, <1>8
      <4> QED
        BY <4>1, <4>2, <4>3, <4>4, <1>3 DEF u
    <3> QED
      BY <3>1, <3>2
  <2>6. \A w \in Buckets : U[w].hash # None => q[w] >= 1
    BY <1>1, <1>3, <1>4, <1>5, <1>6, <1>8
  <2>7. \A w \in Buckets : U[w].hash # None /\ q[w] = 1 => U[Home[U[w].hash]].first = w
    <3> SUFFICES ASSUME NEW w \in Buckets, U[w].hash # None, q[w] = 1
                 PROVE  U[Home[U[w].hash]].first = w
      OBVIOUS
    <3> QED
      BY <1>1, <1>3, <1>4, <1>5 DEF Sound
  <2>8. \A w \in Buckets : U[w].hash # None /\ q[w] # 1 =>
       \E u \in Buckets : /\ U[u].hash # None /\ Home[U[u].hash] = Home[U[w].hash]
                          /\ q[u] = q[w] - 1 /\ U[u].next = w
    <3> SUFFICES ASSUME NEW w \in Buckets, U[w].hash # None, q[w] # 1
                 PROVE  \E u \in Buckets : /\ U[u].hash # None /\ Home[U[u].hash] = Home[U[w].hash]
                                           /\ q[u] = q[w] - 1 /\ U[u].next = w
      OBVIOUS
    <3>1. w # y /\ T[w].hash # None /\ U[w].hash = T[w].hash /\ pos[w] # 1
      BY <1>1, <1>3, <1>4, <1>5
    <3>2. PICK u \in Buckets : /\ T[u].hash # None /\ Home[T[u].hash] = Home[T[w].hash]
                                 /\ pos[u] = pos[w] - 1 /\ T[u].next = w
      BY <3>1 DEF Sound
    <3>3. CASE u = y
      <4>1. /\ U[v].hash = T[v].hash /\ U[v].next = w
            /\ q[v] = pos[v] /\ q[w] = pos[w] - 1 /\ Home[T[w].hash] = x
        BY <3>1, <3>2, <3>3, <1>1, <1>3, <1>4, <1>5
      <4> QED
        BY <4>1, <3>1, <3>2, <3>3, <1>1
    <3>4. CASE u # y
      <4>1. u # v /\ U[u].hash = T[u].hash /\ U[u].next = w
        BY <3>1, <3>2, <3>4, <1>3
      <4>2. q[u] = q[w] - 1
        BY <3>1, <3>2, <3>4, <1>1, <1>4, <1>5, <1>8
      <4> QED
        BY <4>1, <4>2, <3>1, <3>2
    <3> QED
      BY <3>3, <3>4
  <2> QED
    BY <2>1, <2>2, <2>3, <2>4, <2>5, <2>6, <2>7, <2>8 DEF Sound
<1> QED
  BY <1>2, <1>9 DEF U

LEMMA MoveFirstSound ==
  ASSUME NEW T \in [Buckets -> Records], NEW pos \in Positions, Sound(T, pos),
         NEW y \in Buckets, T[y].hash = None, NEW z \in Buckets, T[z].hash # None,
         T[Home[T[z].hash]].first = z
  PROVE  LET U == MoveFirst(T, Home[T[z].hash], y, z)
         IN  U \in [Buckets -> Records] /\ \E p2 \in Positions : Sound(U, p2)
<1> DEFINE U == MoveFirst(T, Home[T[z].hash], y, z)
           x == Home[T[z].hash]
           q == [w \in Buckets |-> IF w = y THEN pos[z] ELSE pos[w]]
<1>1. /\ y # NoBucket /\ z # NoBucket /\ y # z /\ pos[z] \in Nat /\ x \in Buckets /\ pos[z] = 1
  BY SoundFacts DEF Sound
<1>2. U \in [Buckets -> Records] /\ q \in Positions
  BY <1>1 DEF MoveFirst, Records, Positions, BucketOrNone
<1>3. \A w \in Buckets : /\ U[w].first = IF w = x THEN y ELSE T[w].first
                         /\ U[w].next = IF w = y THEN T[z].next ELSE IF w = z THEN NoBucket ELSE T[w].next
                         /\ U[w].hash = IF w = y THEN T[z].hash ELSE IF w = z THEN None ELSE T[w].hash
                         /\ U[w].key = IF w = y THEN T[z].hash ELSE IF w = z THEN None ELSE T[w].key
  BY DEF MoveFirst
<1>4. \A w \in Buckets : q[w] = IF w = y THEN pos[z] ELSE pos[w]
  OBVIOUS
<1>5. \A w \in Buckets : /\ pos[w] \in Nat /\ T[w].first \in BucketOrNone /\ T[w].next \in BucketOrNone
                         /\ T[w].hash # None => Home[T[w].hash] \in Buckets /\ pos[w] >= 1
  BY SoundFacts
<1>6. \A w \in Buckets : T[w].next # NoBucket =>
        LET u == T[w].next IN /\ u \in Buckets /\ T[w].hash # None /\ T[u].hash # None
                              /\ Home[T[u].hash] = Home[T[w].hash] /\ pos[u] = pos[w] + 1
  BY SoundFacts
<1>7. \A w \in Buckets : T[w].first # NoBucket =>
        LET u == T[w].first IN u \in Buckets /\ T[u].hash # None /\ Home[T[u].hash] = w /\ pos[u] = 1
  BY SoundFacts
<1>8. \A w, u \in Buckets : (/\ T[w].hash # None /\ T[u].hash # None
                            /\ Home[T[w].hash] = Home[T[u].hash] /\ pos[w] = pos[u]) => w = u
  BY SoundFacts
<1> HIDE DEF U, q
<1>9. Sound(U, q)
  <2>1. \A w \in Buckets : U[w].hash # None => U[w].key = U[w].hash
    BY <1>3 DEF Sound
  <2>2. \A w \in Buckets : U[w].hash = None => U[w].next = NoBucket
    BY <1>1, <1>3 DEF Sound
  <2>3. \A w, u \in Buckets : U[w].hash # None /\ U[u].hash = U[w].hash => u = w
    BY <1>1, <1>3 DEF Sound
  <2>4. \A w \in Buckets : U[w].first # NoBucket =>
       LET u == U[w].first IN U[u].hash # None /\ Home[U[u].hash] = w /\ q[u] = 1
    BY <1>1, <1>3, <1>4, <1>5, <1>6, <1>7
  <2>5. \A w \in Buckets : U[w].next # NoBucket =>
       LET u == U[w].next IN U[u].hash # None /\ Home[U[u].hash] = Home[U[w].hash] /\ q[u] = q[w] + 1
    <3> SUFFICES ASSUME NEW w \in Buckets, U[w].next # NoBucket
                 PROVE  LET u == U[w].next
                        IN  U[u].hash # None /\ Home[U[u].hash] = Home[U[w].hash] /\ q[u] = q[w] + 1
      OBVIOUS
    <3>1. CASE w = z
      BY <3>1, <1>1, <1>3
    <3>2. CASE w = y
      BY <3>2, <1>1, <1>3, <1>4, <1>5, <1>6, <1>7
    <3>3. CASE w # z /\ w # y
      <4>1. w # z /\ T[w].next # NoBucket /\ U[w].next = T[w].next
        BY <3>3, <1>3
      <4> DEFINE u == T[w].next
      <4>2. /\ u \in Buckets /\ T[w].hash # None /\ T[u].hash # None
            /\ Home[T[u].hash] = Home[T[w].hash] /\ pos[u] = pos[w] + 1
        BY <4>1, <1>6
      <4> HIDE DEF u
      <4>3. u # z /\ u # y
        BY <4>2, <3>3, <1>1, <1>5, <1>8
      <4> QED
        BY <4>1, <4>2, <4>3, <3>3, <1>3, <1>4 DEF u
    <3> QED
      BY <3>1, <3>2, <3>3
  <2>6. \A w \in Buckets : U[w].hash # None => q[w] >= 1
    BY <1>1, <1>3, <1>4, <1>5, <1>6, <1>8
  <2>7. \A w \in Buckets : U[w].hash # None /\ q[w] = 1 => U[Home[U[w].hash]].first = w
    <3> SUFFICES ASSUME NEW w \in Buckets, U[w].hash # None, q[w] = 1
                 PROVE  U[Home[U[w].hash]].first = w
      OBVIOUS
    <3>1. CASE w = y
      BY <3>1, <1>1, <1>3
    <3>2. CASE w # y
      <4>1. w # z /\ T[w].hash # None /\ U[w].hash = T[w].hash /\ pos[w] = 1
        BY <3>2, <1>3, <1>4
      <4> QED
        BY <4>1, <1>1, <1>3, <1>5 DEF Sound
    <3> QED
      BY <3>1, <3>2
  <2>8. \A w \in Buckets : U[w].hash # None /\ q[w] # 1 =>
       \E u \in Buckets : /\ U[u].hash # None /\ Home[U[u].hash] = Home[U[w].hash]
                          /\ q[u] = q[w] - 1 /\ U[u].next = w
    <3> SUFFICES ASSUME NEW w \in Buckets, U[w].hash # None, q[w] # 1
                 PROVE  \E u \in Buckets : /\ U[u].hash # None /\ Home[U[u].hash] = Home[U[w].hash]
                                           /\ q[u] = q[w] - 1 /\ U[u].next = w
      OBVIOUS
    <3>1. w # y /\ w # z /\ T[w].hash # None /\ U[w].hash = T[w].hash /\ pos[w] # 1 /\ q[w] = pos[w]
      BY <1>1, <1>3, <1>4
    <3>2. PICK u \in Buckets : /\ T[u].hash # None /\ Home[T[u].hash] = Home[T[w].hash]
                                 /\ pos[u] = pos[w] - 1 /\ T[u].next = w
      BY <3>1 DEF Sound
    <3>3. CASE u = z
      BY <3>1, <3>2, <3>3, <1>1, <1>3, <1>4
    <3>4. CASE u # z
      BY <3>1, <3>2, <3>4, <1>1, <1>3, <1>4
    <3> QED
      BY <3>3, <3>4
  <2> QED
    BY <2>1, <2>2, <2>3, <2>4, <2>5, <2>6, <2>7, <2>8 DEF Sound
<1> QED
  BY <1>2, <1>9 DEF U

LEMMA MoveAfterSound ==
  ASSUME NEW T \in [Buckets -> Records], NEW pos \in Positions, Sound(T, pos),
         NEW y \in Buckets, T[y].hash = None, NEW z \in Buckets, T[z].hash # None,
         NEW v \in Buckets, T[v].next = z
  PROVE  LET U == MoveAfter(T, v, y, z)
         IN  U \in [Buckets -> Records] /\ \E p2 \in Positions : Sound(U, p2)
<1> DEFINE U == MoveAfter(T, v, y, z)
           q == [w \in Buckets |-> IF w = y THEN pos[z] ELSE pos[w]]
<1>1. /\ y # NoBucket /\ z # NoBucket /\ y # z /\ pos[z] \in Nat
      /\ v # y /\ v # z /\ T[v].hash # None /\ Home[T[v].hash] = Home[T[z].hash]
      /\ pos[v] \in Nat /\ pos[v] >= 1 /\ pos[z] = pos[v] + 1
  BY SoundFacts DEF Sound
<1>2. U \in [Buckets -> Records] /\ q \in Positions
  BY <1>1 DEF MoveAfter, Records, Positions, BucketOrNone
<1>3. \A w \in Buckets : /\ U[w].first = T[w].first
                         /\ U[w].next = IF w = v THEN y ELSE IF w = y THEN T[z].next
                                       ELSE IF w = z THEN NoBucket ELSE T[w].next
                         /\ U[w].hash = IF w = y THEN T[z].hash ELSE IF w = z THEN None ELSE T[w].hash
                         /\ U[w].key = IF w = y THEN T[z].hash ELSE IF w = z THEN None ELSE T[w].key
  BY DEF MoveAfter
<1>4. \A w \in Buckets : q[w] = IF w = y THEN pos[z] ELSE pos[w]
  OBVIOUS
<1>5. \A w \in Buckets : /\ pos[w] \in Nat /\ T[w].first \in BucketOrNone /\ T[w].next \in BucketOrNone
                         /\ T[w].hash # None => Home[T[w].hash] \in Buckets /\ pos[w] >= 1
  BY SoundFacts
<1>6. \A w \in Buckets : T[w].next # NoBucket =>
        LET u == T[w].next IN /\ u \in Buckets /\ T[w].hash # None /\ T[u].hash # None
                              /\ Home[T[u].hash] = Home[T[w].hash] /\ pos[u] = pos[w] + 1
  BY SoundFacts
<1>7. \A w \in Buckets : T[w].first # NoBucket =>
        LET u == T[w].first IN u \in Buckets /\ T[u].hash # None /\ Home[T[u].hash] = w /\ pos[u] = 1
  BY SoundFacts
<1>8. \A w, u \in Buckets : (/\ T[w].hash # None /\ T[u].hash # None
                            /\ Home[T[w].hash] = Home[T[u].hash] /\ pos[w] = pos[u]) => w = u
  BY SoundFacts
<1> HIDE DEF U, q
<1>9. Sound(U, q)
  <2>1. \A w \in Buckets : U[w].hash # None => U[w].key = U[w].hash
    BY <1>3 DEF Sound
  <2>2. \A w \in Buckets : U[w].hash = None => U[w].next = NoBucket
    BY <1>1, <1>3 DEF Sound
  <2>3. \A w, u \in Buckets : U[w].hash # None /\ U[u].hash = U[w].hash => u = w
    BY <1>1, <1>3 DEF Sound
  <2>4. \A w \in Buckets : U[w].first # NoBucket =>
       LET u == U[w].first IN U[u].hash # None /\ Home[U[u].hash] = w /\ q[u] = 1
    BY <1>1, <1>3, <1>4, <1>5, <1>6, <1>7
  <2>5. \A w \in Buckets : U[w].next # NoBucket =>
       LET u == U[w].next IN U[u].hash # None /\ Home[U[u].hash] = Home[U[w].hash] /\ q[u] = q[w] + 1
    <3> SUFFICES ASSUME NEW w \in Buckets, U[w].next # NoBucket
                 PROVE  LET u == U[w].next
                        IN  U[u].hash # None /\ Home[U[u].hash] = Home[U[w].hash] /\ q[u] = q[w] + 1
      OBVIOUS
    <3>1. CASE w = v
      BY <3>1, <1>1, <1>3, <1>4, <1>5, <1>6, <1>7
    <3>2. CASE w = y
      BY <3>2, <1>1, <1>3, <1>4, <1>5, <1>6, <1>7
    <3>3. CASE w # v /\ w # y
      <4>1. w # z /\ T[w].next # NoBucket /\ U[w].next = T[w].next
        BY <3>3, <1>3
      <4> DEFINE u == T[w].next
      <4>2. /\ u \in Buckets /\ T[w].hash # None /\ T[u].hash # None
            /\ Home[T[u].hash] = Home[T[w].hash] /\ pos[u] = pos[w] + 1
        BY <4>1, <1>6
      <4> HIDE DEF u
      <4>3. u # z /\ u # y
        BY <4>2, <3>3, <1>1, <1>5, <1>8
      <4> QED
        BY <4>1, <4>2, <4>3, <3>3, <1>3, <1>4 DEF u
    <3> QED
      BY <3>1, <3>2, <3>3
  <2>6. \A w \in Buckets : U[w].hash # None => q[w] >= 1
    BY <1>1, <1>3, <1>4, <1>5, <1>6, <1>8
  <2>7. \A w \in Buckets : U[w].hash # None /\ q[w] = 1 => U[Home[U[w].hash]].first = w
    <3> SUFFICES ASSUME NEW w \in Buckets, U[w].hash # None, q[w] = 1
                 PROVE  U[Home[U[w].hash]].first = w
      OBVIOUS
    <3>1. w # y /\ w # z /\ T[w].hash # None /\ U[w].hash = T[w].hash /\ pos[w] = 1
      BY <1>1, <1>3, <1>4
    <3> QED
      BY <3>1, <1>3, <1>5 DEF Sound
  <2>8. \A w \in Buckets : U[w].hash # None /\ q[w] # 1 =>
       \E u \in Buckets : /\ U[u].hash # None /\ Home[U[u].hash] = Home[U[w].hash]
                          /\ q[u] = q[w] - 1 /\ U[u].next = w
    <3> SUFFICES ASSUME NEW w \in Buckets, U[w].hash # None, q[w] # 1
                 PROVE  \E u \in Buckets : /\ U[u].hash # None /\ Home[U[u].hash] = Home[U[w].hash]
                                           /\ q[u] = q[w] - 1 /\ U[u].next = w
      OBVIOUS
    <3>1. CASE w = y
      BY <3>1, <1>1, <1>3, <1>4
    <3>2. CASE w # y
      <4>1. w # z /\ T[w].hash # None /\ U[w].hash = T[w].hash /\ pos[w] # 1 /\ q[w] = pos[w]
        BY <3>2, <1>1, <1>3, <1>4
      <4>2. PICK u \in Buckets : /\ T[u].hash # None /\ Home[T[u].hash] = Home[T[w].hash]
                                 /\ pos[u] = pos[w] - 1 /\ T[u].next = w
        BY <4>1 DEF Sound
      <4>3. CASE u = z
        BY <4>1, <4>2, <4>3, <1>1, <1>3, <1>4
      <4>4. CASE u # z
        BY <4>1, <4>2, <4>4, <1>1, <1>3, <1>4
      <4> QED
        BY <4>3, <4>4
    <3> QED
      BY <3>1, <3>2
  <2> QED
    BY <2>1, <2>2, <2>3, <2>4, <2>5, <2>6, <2>7, <2>8 DEF Sound
<1> QED
  BY <1>2, <1>9 DEF U

-----------------------------------------------------------------------------
(* The stores of an update.                                                 *)
Items(s) == {s[i] : i \in 1..Len(s)}

LEMMA ItemsOfNone == Items(<< >>) = {}
BY DEF Items

LEMMA ItemsOfOne ==
  ASSUME NEW S, NEW a \in S
  PROVE  <<a>> \in Seq(S) /\ Items(<<a>>) = {a}
BY DEF Items

LEMMA ItemsOfTwo ==
  ASSUME NEW S, NEW a \in S, NEW b \in S
  PROVE  <<a, b>> \in Seq(S) /\ Items(<<a, b>>) = {a, b}
<1>1. 1..Len(<<a, b>>) = {1, 2}
  OBVIOUS
<1> QED
  BY <1>1 DEF Items

LEMMA ItemsOfThree ==
  ASSUME NEW S, NEW a \in S, NEW b \in S, NEW c \in S
  PROVE  <<a, b, c>> \in Seq(S) /\ Items(<<a, b, c>>) = {a, b, c}
<1>1. 1..Len(<<a, b, c>>) = {1, 2, 3}
  OBVIOUS
<1> QED
  BY <1>1 DEF Items

LEMMA ItemsOfBoth ==
  ASSUME NEW S, NEW s \in Seq(S), NEW t \in Seq(S)
  PROVE  s \o t \in Seq(S) /\ Items(s \o t) = Items(s) \cup Items(t)
<1>1. /\ s \o t \in Seq(S) /\ Len(s \o t) = Len(s) + Len(t) /\ Len(s) \in Nat /\ Len(t) \in Nat
      /\ \A i \in 1..Len(s) + Len(t) : (s \o t)[i] = IF i <= Len(s) THEN s[i] ELSE t[i - Len(s)]
  OBVIOUS
<1>2. ASSUME NEW v \in Items(s \o t) PROVE v \in Items(s) \cup Items(t)
  <2>1. PICK i \in 1..Len(s) + Len(t) : v = (s \o t)[i]
    BY <1>1 DEF Items
  <2>2. i \in 1..Len(s) \/ i - Len(s) \in 1..Len(t)
    BY <1>1
  <2> QED
    BY <1>1, <2>1, <2>2 DEF Items
<1>3. ASSUME NEW v \in Items(s) PROVE v \in Items(s \o t)
  <2>1. PICK i \in 1..Len(s) : v = s[i]
    BY DEF Items
  <2>2. i \in 1..Len(s \o t) /\ v = (s \o t)[i]
    BY <1>1, <2>1
  <2> QED
    BY <2>2 DEF Items
<1>4. ASSUME NEW v \in Items(t) PROVE v \in Items(s \o t)
  <2>1. PICK i \in 1..Len(t) : v = t[i]
    BY DEF Items
  <2>2. i + Len(s) \in 1..Len(s \o t) /\ v = (s \o t)[i + Len(s)]
    BY <1>1, <2>1
  <2> QED
    BY <2>2 DEF Items
<1> QED
  BY <1>1, <1>2, <1>3, <1>4

LEMMA ItemsOfTail ==
  ASSUME NEW S, NEW s \in Seq(S), s # << >>
  PROVE  /\ Tail(s) \in Seq(S) /\ Head(s) \in S /\ Len(s) >= 1
         /\ Items(s) = {Head(s)} \cup Items(Tail(s))
<1>1. /\ Tail(s) \in Seq(S) /\ Len(s) \in Nat /\ Len(s) >= 1 /\ Len(Tail(s)) = Len(s) - 1
      /\ Head(s) = s[1] /\ s[1] \in S
      /\ \A i \in 1..Len(s) - 1 : Tail(s)[i] = s[i + 1]
  OBVIOUS
<1>2. ASSUME NEW v \in Items(s) PROVE v \in {Head(s)} \cup Items(Tail(s))
  <2>1. PICK i \in 1..Len(s) : v = s[i]
    BY DEF Items
  <2>2. CASE i = 1
    BY <1>1, <2>1, <2>2
  <2>3. CASE i # 1
    <3>1. i - 1 \in 1..Len(Tail(s)) /\ v = Tail(s)[i - 1]
      BY <1>1, <2>1, <2>3
    <3> QED
      BY <3>1 DEF Items
  <2> QED
    BY <2>2, <2>3
<1>3. Head(s) \in Items(s)
  BY <1>1 DEF Items
<1>4. ASSUME NEW v \in Items(Tail(s)) PROVE v \in Items(s)
  <2>1. PICK i \in 1..Len(Tail(s)) : v = Tail(s)[i]
    BY DEF Items
  <2>2. i + 1 \in 1..Len(s) /\ v = s[i + 1]
    BY <1>1, <2>1
  <2> QED
    BY <2>2 DEF Items
<1> QED
  BY <1>1, <1>2, <1>3, <1>4

(* What the stores in S make of the table t is T.                           *)
Fields == {"first", "next", "hash", "key"}
Leads(t, S, T) ==
  /\ \A s \in S : s.field # "stamp" => s.bucket \in Buckets /\ T[s.bucket][s.field] = s.value
  /\ \A y \in Buckets, f \in Fields : t[y][f] = T[y][f] \/ \E s \in S : s.bucket = y /\ s.field = f

LEMMA StoreLeads ==
  ASSUME NEW t \in [Buckets -> Records], NEW T \in [Buckets -> Records],
         NEW h \in Stores, NEW S, Leads(t, {h} \cup S, T), h.field # "stamp"
  PROVE  LET u == [t EXCEPT ![h.bucket][h.field] = h.value]
         IN  u \in [Buckets -> Records] /\ Leads(u, S, T)
<1> DEFINE u == [t EXCEPT ![h.bucket][h.field] = h.value]
<1>1. h.bucket \in Buckets /\ h.field \in Fields /\ T[h.bucket][h.field] = h.value
  BY DEF Leads, Stores, Fields
<1>2. u \in [Buckets -> Records]
  <2>1. [t[h.bucket] EXCEPT ![h.field] = h.value] \in Records
    <3>1. t[h.bucket] \in Records /\ T[h.bucket] \in Records
      BY <1>1
    <3>2. CASE h.field = "first"
      BY <3>1, <3>2, <1>1 DEF Records
    <3>3. CASE h.field = "next"
      BY <3>1, <3>3, <1>1 DEF Records
    <3>4. CASE h.field = "hash"
      BY <3>1, <3>4, <1>1 DEF Records
    <3>5. CASE h.field = "key"
      BY <3>1, <3>5, <1>1 DEF Records
    <3> QED
      BY <3>2, <3>3, <3>4, <3>5, <1>1 DEF Fields
  <2> QED
    BY <2>1, <1>1
<1>3. \A y \in Buckets, f \in Fields :
        u[y][f] = IF y = h.bucket /\ f = h.field THEN h.value ELSE t[y][f]
  BY <1>1 DEF Records, Fields
<1>4. ASSUME NEW y \in Buckets, NEW f \in Fields
      PROVE  u[y][f] = T[y][f] \/ \E s \in S : s.bucket = y /\ s.field = f
  <2>1. CASE y = h.bucket /\ f = h.field
    BY <2>1, <1>1, <1>3
  <2>2. CASE ~(y = h.bucket /\ f = h.field)
    BY <2>2, <1>3 DEF Leads
  <2> QED
    BY <2>1, <2>2
<1>5. Leads(u, S, T)
  BY <1>4 DEF Leads
<1> QED
  BY <1>2, <1>5

LEMMA StampLeads ==
  ASSUME NEW t, NEW T, NEW h, NEW S, Leads(t, {h} \cup S, T), h.field = "stamp"
  PROVE  Leads(t, S, T)
BY DEF Leads, Fields

LEMMA AllStored ==
  ASSUME NEW t \in [Buckets -> Records], NEW T \in [Buckets -> Records], Leads(t, {}, T)
  PROVE  t = T
<1>1. \A y \in Buckets : t[y] = T[y]
  <2> SUFFICES ASSUME NEW y \in Buckets PROVE t[y] = T[y]
    OBVIOUS
  <2>1. t[y].first = T[y].first /\ t[y].next = T[y].next /\ t[y].hash = T[y].hash /\ t[y].key = T[y].key
    BY DEF Leads, Fields
  <2>2. t[y] \in Records /\ T[y] \in Records
    OBVIOUS
  <2> QED
    BY <2>1, <2>2 DEF Records
<1> QED
  BY <1>1

LEMMA SetIs ==
  ASSUME NEW b \in BucketOrNone, NEW f \in Fields \cup {"stamp"}, NEW v \in Keys \cup BucketOrNone \cup {None}
  PROVE  Set(b, f, v) \in Stores /\ Set(b, f, v).bucket = b /\ Set(b, f, v).field = f /\ Set(b, f, v).value = v
BY DEF Set, Stores, Fields

LEMMA FillIs ==
  ASSUME NEW y \in Buckets, NEW k \in Keys
  PROVE  Fill(y, k) \in Seq(Stores) /\ Items(Fill(y, k)) = {Set(y, "key", k), Set(y, "hash", k)}
<1>1. Set(y, "key", k) \in Stores /\ Set(y, "hash", k) \in Stores
  BY SetIs DEF Fields, BucketOrNone
<1> QED
  BY <1>1, ItemsOfTwo DEF Fill

LEMMA ClearIs ==
  ASSUME NEW y \in Buckets
  PROVE  Clear(y) \in Seq(Stores) /\ Items(Clear(y)) = {Set(y, "hash", None), Set(y, "key", None)}
<1>1. Set(y, "hash", None) \in Stores /\ Set(y, "key", None) \in Stores
  BY SetIs DEF Fields, BucketOrNone
<1> QED
  BY <1>1, ItemsOfTwo DEF Clear

(* The stores of a put make the table with the new entry.                   *)
LEMMA PutFirstStores ==
  ASSUME tbl \in [Buckets -> Records], NEW x \in Buckets, NEW y \in Buckets, NEW k \in Keys
  PROVE  LET s == Fill(y, k) \o <<Set(y, "next", tbl[x].first), Set(x, "first", y)>>
         IN  s \in Seq(Stores) /\ Leads(tbl, Items(s), PutFirst(tbl, x, y, k))
<1> DEFINE a == Set(y, "next", tbl[x].first)
           b == Set(x, "first", y)
           s == Fill(y, k) \o <<a, b>>
           S == {Set(y, "key", k), Set(y, "hash", k), a, b}
<1>1. \A w \in Buckets : tbl[w].first \in BucketOrNone /\ tbl[w].next \in BucketOrNone
  BY DEF Records
<1>2. a \in Stores /\ b \in Stores
  BY <1>1, SetIs DEF Fields, BucketOrNone
<1> HIDE DEF a, b
<1>3. s \in Seq(Stores) /\ Items(s) = S
  <2> DEFINE f == Fill(y, k)
             r == <<a, b>>
  <2>1. f \in Seq(Stores) /\ Items(f) = {Set(y, "key", k), Set(y, "hash", k)}
    BY FillIs
  <2>2. r \in Seq(Stores) /\ Items(r) = {a, b}
    BY <1>2, ItemsOfTwo
  <2> HIDE DEF f, r
  <2>3. f \o r \in Seq(Stores) /\ Items(f \o r) = S
    BY <2>1, <2>2, ItemsOfBoth
  <2> QED
    BY <2>3 DEF f, r
<1> DEFINE T == PutFirst(tbl, x, y, k)
<1>4. \A w \in Buckets : /\ T[w].first = IF w = x THEN y ELSE tbl[w].first
                         /\ T[w].next = IF w = y THEN tbl[x].first ELSE tbl[w].next
                         /\ T[w].hash = IF w = y THEN k ELSE tbl[w].hash
                         /\ T[w].key = IF w = y THEN k ELSE tbl[w].key
  BY DEF PutFirst
<1> HIDE DEF T
<1>5. Leads(tbl, S, T)
  BY <1>4 DEF Leads, Fields, Set, a, b
<1> QED
  BY <1>3, <1>5 DEF T, a, b

LEMMA PutAfterStores ==
  ASSUME tbl \in [Buckets -> Records], NEW v \in Buckets, NEW y \in Buckets, NEW k \in Keys, v # y
  PROVE  LET s == Fill(y, k) \o <<Set(y, "next", tbl[v].next), Set(v, "next", y)>>
         IN  s \in Seq(Stores) /\ Leads(tbl, Items(s), PutAfter(tbl, v, y, k))
<1> DEFINE a == Set(y, "next", tbl[v].next)
           b == Set(v, "next", y)
           s == Fill(y, k) \o <<a, b>>
           S == {Set(y, "key", k), Set(y, "hash", k), a, b}
<1>1. \A w \in Buckets : tbl[w].first \in BucketOrNone /\ tbl[w].next \in BucketOrNone
  BY DEF Records
<1>2. a \in Stores /\ b \in Stores
  BY <1>1, SetIs DEF Fields, BucketOrNone
<1> HIDE DEF a, b
<1>3. s \in Seq(Stores) /\ Items(s) = S
  <2> DEFINE f == Fill(y, k)
             r == <<a, b>>
  <2>1. f \in Seq(Stores) /\ Items(f) = {Set(y, "key", k), Set(y, "hash", k)}
    BY FillIs
  <2>2. r \in Seq(Stores) /\ Items(r) = {a, b}
    BY <1>2, ItemsOfTwo
  <2> HIDE DEF f, r
  <2>3. f \o r \in Seq(Stores) /\ Items(f \o r) = S
    BY <2>1, <2>2, ItemsOfBoth
  <2> QED
    BY <2>3 DEF f, r
<1> DEFINE T == PutAfter(tbl, v, y, k)
<1>4. \A w \in Buckets : /\ T[w].first = tbl[w].first
                         /\ T[w].next = IF w = v THEN y ELSE IF w = y THEN tbl[v].next ELSE tbl[w].next
                         /\ T[w].hash = IF w = y THEN k ELSE tbl[w].hash
                         /\ T[w].key = IF w = y THEN k ELSE tbl[w].key
  BY DEF PutAfter
<1> HIDE DEF T
<1>5. Leads(tbl, S, T)
  BY <1>4 DEF Leads, Fields, Set, a, b
<1> QED
  BY <1>3, <1>5 DEF T, a, b

LEMMA DropFirstStores ==
  ASSUME tbl \in [Buckets -> Records], NEW x \in Buckets, NEW y \in Buckets
  PROVE  LET s == Clear(y) \o <<Set(x, "first", tbl[y].next), StampStore, Set(y, "next", NoBucket)>>
         IN  s \in Seq(Stores) /\ Leads(tbl, Items(s), DropFirst(tbl, x, y))
<1> DEFINE a == Set(x, "first", tbl[y].next)
           b == StampStore
           c == Set(y, "next", NoBucket)
           s == Clear(y) \o <<a, b, c>>
           S == {Set(y, "hash", None), Set(y, "key", None), a, b, c}
<1>1. \A w \in Buckets : tbl[w].first \in BucketOrNone /\ tbl[w].next \in BucketOrNone
  BY DEF Records
<1>2. a \in Stores /\ b \in Stores /\ c \in Stores
  BY <1>1, SetIs DEF Fields, BucketOrNone, StampStore
<1> HIDE DEF a, b, c
<1>3. s \in Seq(Stores) /\ Items(s) = S
  <2> DEFINE f == Clear(y)
             r == <<a, b, c>>
  <2>1. f \in Seq(Stores) /\ Items(f) = {Set(y, "hash", None), Set(y, "key", None)}
    BY ClearIs
  <2>2. r \in Seq(Stores) /\ Items(r) = {a, b, c}
    BY <1>2, ItemsOfThree
  <2> HIDE DEF f, r
  <2>3. f \o r \in Seq(Stores) /\ Items(f \o r) = S
    BY <2>1, <2>2, ItemsOfBoth
  <2> QED
    BY <2>3 DEF f, r
<1> DEFINE T == DropFirst(tbl, x, y)
<1>4. \A w \in Buckets : /\ T[w].first = IF w = x THEN tbl[y].next ELSE tbl[w].first
                         /\ T[w].next = IF w = y THEN NoBucket ELSE tbl[w].next
                         /\ T[w].hash = IF w = y THEN None ELSE tbl[w].hash
                         /\ T[w].key = IF w = y THEN None ELSE tbl[w].key
  BY DEF DropFirst
<1> HIDE DEF T
<1>5. Leads(tbl, S, T)
  BY <1>4 DEF Leads, Fields, Set, StampStore, a, b, c
<1> QED
  BY <1>3, <1>5 DEF T, a, b, c

LEMMA DropAfterStores ==
  ASSUME tbl \in [Buckets -> Records], NEW v \in Buckets, NEW y \in Buckets, v # y
  PROVE  LET s == Clear(y) \o <<Set(v, "next", tbl[y].next), StampStore, Set(y, "next", NoBucket)>>
         IN  s \in Seq(Stores) /\ Leads(tbl, Items(s), DropAfter(tbl, v, y))
<1> DEFINE a == Set(v, "next", tbl[y].next)
           b == StampStore
           c == Set(y, "next", NoBucket)
           s == Clear(y) \o <<a, b, c>>
           S == {Set(y, "hash", None), Set(y, "key", None), a, b, c}
<1>1. \A w \in Buckets : tbl[w].first \in BucketOrNone /\ tbl[w].next \in BucketOrNone
  BY DEF Records
<1>2. a \in Stores /\ b \in Stores /\ c \in Stores
  BY <1>1, SetIs DEF Fields, BucketOrNone, StampStore
<1> HIDE DEF a, b, c
<1>3. s \in Seq(Stores) /\ Items(s) = S
  <2> DEFINE f == Clear(y)
             r == <<a, b, c>>
  <2>1. f \in Seq(Stores) /\ Items(f) = {Set(y, "hash", None), Set(y, "key", None)}
    BY ClearIs
  <2>2. r \in Seq(Stores) /\ Items(r) = {a, b, c}
    BY <1>2, ItemsOfThree
  <2> HIDE DEF f, r
  <2>3. f \o r \in Seq(Stores) /\ Items(f \o r) = S
    BY <2>1, <2>2, ItemsOfBoth
  <2> QED
    BY <2>3 DEF f, r
<1> DEFINE T == DropAfter(tbl, v, y)
<1>4. \A w \in Buckets : /\ T[w].first = tbl[w].first
                         /\ T[w].next = IF w = v THEN tbl[y].next ELSE IF w = y THEN NoBucket ELSE tbl[w].next
                         /\ T[w].hash = IF w = y THEN None ELSE tbl[w].hash
                         /\ T[w].key = IF w = y THEN None ELSE tbl[w].key
  BY DEF DropAfter
<1> HIDE DEF T
<1>5. Leads(tbl, S, T)
  BY <1>4 DEF Leads, Fields, Set, StampStore, a, b, c
<1> QED
  BY <1>3, <1>5 DEF T, a, b, c

LEMMA MoveFirstStores ==
  ASSUME tbl \in [Buckets -> Records], NEW y \in Buckets, NEW z \in Buckets, y # z, tbl[z].hash \in Keys,
         NEW x \in Buckets
  PROVE  LET s == Fill(y, tbl[z].hash) \o <<Set(y, "next", tbl[z].next), Set(x, "first", y), StampStore>>
                    \o Clear(z) \o <<Set(z, "next", NoBucket)>>
         IN  s \in Seq(Stores) /\ Leads(tbl, Items(s), MoveFirst(tbl, x, y, z))
<1> DEFINE k == tbl[z].hash
           a == Set(y, "next", tbl[z].next)
           b == Set(x, "first", y)
           c == StampStore
           d == Set(z, "next", NoBucket)
           s == Fill(y, k) \o <<a, b, c>> \o Clear(z) \o <<d>>
           S == {Set(y, "key", k), Set(y, "hash", k), a, b, c, Set(z, "hash", None), Set(z, "key", None), d}
<1>1. \A w \in Buckets : tbl[w].first \in BucketOrNone /\ tbl[w].next \in BucketOrNone
  BY DEF Records
<1>2. a \in Stores /\ b \in Stores /\ c \in Stores /\ d \in Stores
  BY <1>1, SetIs DEF Fields, BucketOrNone, StampStore
<1> HIDE DEF a, b, c, d
<1>3. s \in Seq(Stores) /\ Items(s) = S
  <2> DEFINE f == Fill(y, k)
             r == <<a, b, c>>
             g == Clear(z)
             u == <<d>>
  <2>1. f \in Seq(Stores) /\ Items(f) = {Set(y, "key", k), Set(y, "hash", k)}
    BY FillIs
  <2>2. r \in Seq(Stores) /\ Items(r) = {a, b, c}
    BY <1>2, ItemsOfThree
  <2>3. g \in Seq(Stores) /\ Items(g) = {Set(z, "hash", None), Set(z, "key", None)}
    BY ClearIs
  <2>4. u \in Seq(Stores) /\ Items(u) = {d}
    BY <1>2, ItemsOfOne
  <2> HIDE DEF f, r, g, u
  <2> DEFINE h == f \o r
             i == h \o g
  <2>5. h \in Seq(Stores) /\ Items(h) = Items(f) \cup Items(r)
    BY <2>1, <2>2, ItemsOfBoth
  <2> HIDE DEF h
  <2>6. i \in Seq(Stores) /\ Items(i) = Items(h) \cup Items(g)
    BY <2>3, <2>5, ItemsOfBoth
  <2> HIDE DEF i
  <2>7. i \o u \in Seq(Stores) /\ Items(i \o u) = Items(i) \cup Items(u)
    BY <2>4, <2>6, ItemsOfBoth
  <2>8. i \o u \in Seq(Stores) /\ Items(i \o u) = S
    BY <2>1, <2>2, <2>3, <2>4, <2>5, <2>6, <2>7
  <2> QED
    BY <2>8 DEF f, r, g, u, h, i
<1> DEFINE T == MoveFirst(tbl, x, y, z)
<1>4. \A w \in Buckets : /\ T[w].first = IF w = x THEN y ELSE tbl[w].first
                         /\ T[w].next = IF w = y THEN tbl[z].next ELSE IF w = z THEN NoBucket ELSE tbl[w].next
                         /\ T[w].hash = IF w = y THEN k ELSE IF w = z THEN None ELSE tbl[w].hash
                         /\ T[w].key = IF w = y THEN k ELSE IF w = z THEN None ELSE tbl[w].key
  BY DEF MoveFirst
<1> HIDE DEF T
<1>5. Leads(tbl, S, T)
  BY <1>4 DEF Leads, Fields, Set, StampStore, a, b, c, d
<1> QED
  BY <1>3, <1>5 DEF T, a, b, c, d

LEMMA MoveAfterStores ==
  ASSUME tbl \in [Buckets -> Records], NEW y \in Buckets, NEW z \in Buckets, y # z, tbl[z].hash \in Keys,
         NEW v \in Buckets, v # y, v # z
  PROVE  LET s == Fill(y, tbl[z].hash) \o <<Set(y, "next", tbl[z].next), Set(v, "next", y), StampStore>>
                    \o Clear(z) \o <<Set(z, "next", NoBucket)>>
         IN  s \in Seq(Stores) /\ Leads(tbl, Items(s), MoveAfter(tbl, v, y, z))
<1> DEFINE k == tbl[z].hash
           a == Set(y, "next", tbl[z].next)
           b == Set(v, "next", y)
           c == StampStore
           d == Set(z, "next", NoBucket)
           s == Fill(y, k) \o <<a, b, c>> \o Clear(z) \o <<d>>
           S == {Set(y, "key", k), Set(y, "hash", k), a, b, c, Set(z, "hash", None), Set(z, "key", None), d}
<1>1. \A w \in Buckets : tbl[w].first \in BucketOrNone /\ tbl[w].next \in BucketOrNone
  BY DEF Records
<1>2. a \in Stores /\ b \in Stores /\ c \in Stores /\ d \in Stores
  BY <1>1, SetIs DEF Fields, BucketOrNone, StampStore
<1> HIDE DEF a, b, c, d
<1>3. s \in Seq(Stores) /\ Items(s) = S
  <2> DEFINE f == Fill(y, k)
             r == <<a, b, c>>
             g == Clear(z)
             u == <<d>>
  <2>1. f \in Seq(Stores) /\ Items(f) = {Set(y, "key", k), Set(y, "hash", k)}
    BY FillIs
  <2>2. r \in Seq(Stores) /\ Items(r) = {a, b, c}
    BY <1>2, ItemsOfThree
  <2>3. g \in Seq(Stores) /\ Items(g) = {Set(z, "hash", None), Set(z, "key", None)}
    BY ClearIs
  <2>4. u \in Seq(Stores) /\ Items(u) = {d}
    BY <1>2, ItemsOfOne
  <2> HIDE DEF f, r, g, u
  <2> DEFINE h == f \o r
             i == h \o g
  <2>5. h \in Seq(Stores) /\ Items(h) = Items(f) \cup Items(r)
    BY <2>1, <2>2, ItemsOfBoth
  <2> HIDE DEF h
  <2>6. i \in Seq(Stores) /\ Items(i) = Items(h) \cup Items(g)
    BY <2>3, <2>5, ItemsOfBoth
  <2> HIDE DEF i
  <2>7. i \o u \in Seq(Stores) /\ Items(i \o u) = Items(i) \cup Items(u)
    BY <2>4, <2>6, ItemsOfBoth
  <2>8. i \o u \in Seq(Stores) /\ Items(i \o u) = S
    BY <2>1, <2>2, <2>3, <2>4, <2>5, <2>6, <2>7
  <2> QED
    BY <2>8 DEF f, r, g, u, h, i
<1> DEFINE T == MoveAfter(tbl, v, y, z)
<1>4. \A w \in Buckets : /\ T[w].first = tbl[w].first
                         /\ T[w].next = IF w = v THEN y ELSE IF w = y THEN tbl[z].next
                                         ELSE IF w = z THEN NoBucket ELSE tbl[w].next
                         /\ T[w].hash = IF w = y THEN k ELSE IF w = z THEN None ELSE tbl[w].hash
                         /\ T[w].key = IF w = y THEN k ELSE IF w = z THEN None ELSE tbl[w].key
  BY DEF MoveAfter
<1> HIDE DEF T
<1>5. Leads(tbl, S, T)
  BY <1>4 DEF Leads, Fields, Set, StampStore, a, b, c, d
<1> QED
  BY <1>3, <1>5 DEF T, a, b, c, d

-----------------------------------------------------------------------------
(* The buckets of a cache line, and the order in which free ones are tried. *)
LEMMA Quotient ==
  ASSUME NEW x \in Nat, NEW l \in Nat \ {0}
  PROVE  x = l * (x \div l) + (x % l) /\ x % l \in 0..(l - 1) /\ x \div l \in Nat
OBVIOUS

LEMMA Remainder ==
  ASSUME NEW x \in Int, NEW l \in Nat \ {0}
  PROVE  x % l \in 0..(l - 1)
OBVIOUS

LEMMA NextMultiple ==
  ASSUME NEW a \in Nat, NEW b \in Nat, NEW l \in Nat \ {0}, l * a < l * b
  PROVE  l * a + l <= l * b
<1>1. a < b
  <2>1. a >= b => l * a >= l * b
    OBVIOUS
  <2> QED
    BY <2>1
<1>2. b - a >= 1 /\ b - a \in Nat
  BY <1>1
<1>3. l * (b - a) >= l
  BY <1>2
<1> QED
  BY <1>3

LEMMA LineInside ==
  ASSUME NEW x \in Buckets
  PROVE  LineOf(x) \subseteq Buckets
<1> DEFINE a == x \div Line
           b == NumBuckets \div Line
<1>1. /\ x \in Nat /\ x < NumBuckets /\ NumBuckets \in Nat
      /\ Line \in Nat \ {0} /\ NumBuckets % Line = 0
  BY SizesAssumption DEF Buckets
<1>2. x = Line * a + (x % Line) /\ x % Line \in 0..(Line - 1) /\ a \in Nat
  BY <1>1, Quotient
<1>3. NumBuckets = Line * b /\ b \in Nat
  <2>1. NumBuckets = Line * b + (NumBuckets % Line) /\ b \in Nat
    BY <1>1, Quotient
  <2>2. Line * b \in Nat
    BY <2>1, <1>1
  <2> QED
    BY <2>1, <2>2, <1>1
<1>4. Line * a \in Nat /\ LineStart(x) = Line * a
  <2> DEFINE m == Line * a
             r == x % Line
  <2>1. m \in Nat
    BY <1>1, <1>2
  <2>2. x = m + r /\ r \in 0..(Line - 1)
    BY <1>2
  <2> HIDE DEF m
  <2>3. x - r = m
    BY <2>1, <2>2, <1>1
  <2> QED
    BY <2>1, <2>3 DEF LineStart, m
<1>5. Line * a < Line * b
  BY <1>1, <1>2, <1>3, <1>4
<1>6. Line * a + Line <= Line * b
  BY <1>1, <1>2, <1>3, <1>5, NextMultiple
<1> HIDE DEF a, b
<1> QED
  BY <1>1, <1>3, <1>4, <1>6 DEF LineOf, Buckets

LEMMA AwayIs ==
  ASSUME NEW x \in Buckets, NEW y \in Buckets
  PROVE  Away(x, y) \in Nat
<1>1. x \in Nat /\ y \in Nat /\ Line \in Nat \ {0}
  BY SizesAssumption DEF Buckets
<1>2. (y - x) % Line \in Nat
  <2> DEFINE d == y - x
  <2>1. d \in Int
    BY <1>1
  <2> HIDE DEF d
  <2>2. d % Line \in 0..(Line - 1)
    BY <2>1, <1>1, Remainder
  <2> QED
    BY <2>2, <1>1 DEF d
<1>3. CASE y \in LineOf(x)
  BY <1>2, <1>3 DEF Away
<1>4. CASE y \notin LineOf(x) /\ y > x
  <2>1. Away(x, y) = y - x
    BY <1>4 DEF Away
  <2> QED
    BY <2>1, <1>1, <1>4
<1>5. CASE y \notin LineOf(x) /\ ~(y > x)
  <2>1. Away(x, y) = x - y
    BY <1>5 DEF Away
  <2> QED
    BY <2>1, <1>1, <1>5
<1> QED
  BY <1>3, <1>4, <1>5

LEMMA FirstIs ==
  ASSUME NEW x \in Buckets, NEW S \in SUBSET Buckets, S # {}
  PROVE  First(S, x) \in S
<1> DEFINE D == {Away(x, y) : y \in S}
<1>1. \A y \in S : Away(x, y) \in Nat
  BY AwayIs
<1>2. D \in SUBSET Nat /\ D # {}
  BY <1>1
<1>3. PICK d \in D : \A e \in D : d <= e
  BY <1>2, Least
<1>4. PICK y \in S : d = Away(x, y)
  BY <1>3
<1>5. \A z \in S : Away(x, y) <= Away(x, z)
  BY <1>3, <1>4
<1> QED
  BY <1>5 DEF First

(* The first member of a set of pairs of numbers.                           *)
LEMMA LeastPair ==
  ASSUME NEW S \in SUBSET (Nat \X Nat), S # {}
  PROVE  \E m \in S : \A o \in S : m[1] < o[1] \/ (m[1] = o[1] /\ m[2] <= o[2])
<1>0. \A o \in S : o[1] \in Nat /\ o[2] \in Nat
  OBVIOUS
<1> DEFINE A == {o[1] : o \in S}
<1>1. A \in SUBSET Nat /\ A # {}
  BY <1>0
<1>2. PICK a \in A : \A c \in A : a <= c
  BY <1>1, Least
<1> DEFINE B == {o[2] : o \in {u \in S : u[1] = a}}
<1>3. B \in SUBSET Nat /\ B # {}
  BY <1>0, <1>2
<1>4. PICK b \in B : \A c \in B : b <= c
  BY <1>3, Least
<1>5. PICK m \in S : m[1] = a /\ m[2] = b
  BY <1>4
<1>6. ASSUME NEW o \in S PROVE m[1] < o[1] \/ (m[1] = o[1] /\ m[2] <= o[2])
  <2>1. a <= o[1] /\ o[1] \in Nat /\ a \in Nat
    BY <1>0, <1>1, <1>2
  <2>2. o[1] = a => b <= o[2]
    BY <1>4
  <2> QED
    BY <2>1, <2>2, <1>5
<1> QED
  BY <1>6

-----------------------------------------------------------------------------
(* The invariant.  Whoever updates has a table in view, sound again, that   *)
(* its stores lead to; after a remove the bucket in at[p] is free in it.    *)
SoundTable(t) == \E pos \in Positions : Sound(t, pos)

Updating(p) ==
  \E T \in [Buckets -> Records] :
    /\ SoundTable(T) /\ Leads(tbl, Items(stores[p]), T)
    /\ pc[p] = "store" /\ call[p].op = "remove" => at[p] \in Buckets /\ T[at[p]].hash = None

ThreadOK(p) ==
  /\ pc[p] = "idle" <=> call[p] = Idle
  /\ pc[p] \in {"hash", "key", "next"} => at[p] \in Buckets
  /\ pc[p] \in {"store", "move"} => Updating(p)

IndInv ==
  /\ TypeOK
  /\ lock = None => SoundTable(tbl)
  /\ \A p \in Threads : ThreadOK(p)

LEMMA KeyIs ==
  ASSUME TypeOK, NEW p \in Threads, ThreadOK(p), pc[p] # "idle"
  PROVE  call[p] \in Calls /\ Key(p) \in Keys /\ Home[Key(p)] \in Buckets /\ p # None
BY KeysAssumption, ThreadsAssumption DEF TypeOK, ThreadOK, Key, Calls

LEMMA Initially == Init => IndInv
<1> SUFFICES ASSUME Init PROVE IndInv
  OBVIOUS
<1>1. TypeOK
  BY ThreadsAssumption DEF Init, TypeOK, Records, BucketOrNone, Calls, Labels
<1>2. SoundTable(tbl)
  <2> DEFINE pos == [x \in Buckets |-> 0]
  <2>1. pos \in Positions
    BY DEF Positions
  <2>2. \A x \in Buckets : tbl[x].first = NoBucket /\ tbl[x].next = NoBucket /\ tbl[x].hash = None
    BY DEF Init
  <2>3. Sound(tbl, pos)
    BY <2>2 DEF Sound
  <2> QED
    BY <2>1, <2>3 DEF SoundTable
<1>3. \A p \in Threads : ThreadOK(p)
  BY DEF Init, ThreadOK
<1> QED
  BY <1>1, <1>2, <1>3 DEF IndInv

(* The other threads: only the one that has the lock can have stores to do. *)
LEMMA Others ==
  ASSUME IndInv, NEW p \in Threads, tbl' = tbl \/ lock = p,
         \A q \in Threads \ {p} : /\ pc'[q] = pc[q] /\ call'[q] = call[q]
                                  /\ at'[q] = at[q] /\ stores'[q] = stores[q]
  PROVE  \A q \in Threads \ {p} : ThreadOK(q)'
<1> SUFFICES ASSUME NEW q \in Threads \ {p} PROVE ThreadOK(q)'
  OBVIOUS
<1>1. ThreadOK(q)
  BY DEF IndInv
<1>2. pc[q] \in {"store", "move"} => tbl' = tbl
  BY DEF IndInv, TypeOK
<1>3. pc[q] \in {"store", "move"} => (Updating(q) => Updating(q)')
  BY <1>2 DEF Updating
<1> QED
  BY <1>1, <1>3 DEF ThreadOK

(* A step of a thread without the lock that does not take it.               *)
LEMMA Without ==
  ASSUME IndInv, NEW p \in Threads, UNCHANGED <<aligned, tbl, lock, stores>>,
         NEW l \in Labels \ {"store", "move", "exit"}, pc[p] \notin {"store", "move", "exit"},
         Goto(p, l),
         NEW c \in Calls \cup {Idle}, call' = [call EXCEPT ![p] = c], c = Idle <=> l = "idle",
         NEW x \in BucketOrNone, at' = [at EXCEPT ![p] = x], l \in {"hash", "key", "next"} => x \in Buckets,
         stale' \in [Threads -> BOOLEAN], ret' \in [Threads -> Vals \cup {None}]
  PROVE  IndInv'
<1>1. /\ pc' \in [Threads -> Labels] /\ pc'[p] = l /\ \A q \in Threads \ {p} : pc'[q] = pc[q]
      /\ call' \in [Threads -> Calls \cup {Idle}] /\ call'[p] = c
      /\ \A q \in Threads \ {p} : call'[q] = call[q]
      /\ at' \in [Threads -> BucketOrNone] /\ at'[p] = x /\ \A q \in Threads \ {p} : at'[q] = at[q]
  BY DEF Goto, IndInv, TypeOK
<1>2. TypeOK'
  BY <1>1 DEF IndInv, TypeOK
<1>3. \A q \in Threads \ {p} : ThreadOK(q)'
  BY <1>1, Others
<1>4. ThreadOK(p)'
  BY <1>1 DEF ThreadOK
<1> QED
  BY <1>2, <1>3, <1>4 DEF IndInv

LEMMA QuietSteps ==
  ASSUME IndInv, NEW p \in Threads, UNCHANGED aligned,
         Invoke(p) \/ Return(p) \/ containsKey(p)
  PROVE  IndInv'
<1>0. /\ at \in [Threads -> BucketOrNone] /\ call \in [Threads -> Calls \cup {Idle}]
      /\ stale \in [Threads -> BOOLEAN] /\ ret \in [Threads -> Vals \cup {None}]
      /\ tbl \in [Buckets -> Records]
      /\ at = [at EXCEPT ![p] = at[p]] /\ call = [call EXCEPT ![p] = call[p]]
  BY DEF IndInv, TypeOK
<1>1. ThreadOK(p)
  BY DEF IndInv
<1>2. Idle \notin Calls
  BY KeysAssumption DEF Idle, Calls
<1>3. CASE Invoke(p)
  <2>1. PICK c \in Calls : /\ call' = [call EXCEPT ![p] = c]
                           /\ Goto(p, IF c.op = "get" THEN "stamp" ELSE "lock")
    BY <1>3 DEF Invoke
  <2> DEFINE l == IF c.op = "get" THEN "stamp" ELSE "lock"
  <2>2. l \in Labels \ {"store", "move", "exit"} /\ l \notin {"idle", "hash", "key", "next"}
    BY DEF Labels
  <2>3. UNCHANGED <<aligned, tbl, lock, stores, at, stale, ret>> /\ pc[p] = "idle"
    BY <1>3 DEF Invoke, table, locals
  <2> HIDE DEF l
  <2>4. c \in Calls \cup {Idle} /\ c # Idle
    BY <1>2
  <2>5. Goto(p, l) /\ at' = [at EXCEPT ![p] = at[p]] /\ at[p] \in BucketOrNone
    BY <2>1, <2>3, <1>0 DEF l
  <2>6. stale' \in [Threads -> BOOLEAN] /\ ret' \in [Threads -> Vals \cup {None}]
    BY <2>3, <1>0
  <2>7. pc[p] \notin {"store", "move", "exit"}
    BY <2>3
  <2> QED
    BY <2>1, <2>2, <2>3, <2>4, <2>5, <2>6, <2>7, Without
<1>4. CASE Return(p)
  <2>1. /\ UNCHANGED <<aligned, tbl, lock, stores>> /\ pc[p] = "done" /\ Goto(p, "idle")
        /\ call' = [call EXCEPT ![p] = Idle] /\ at' = [at EXCEPT ![p] = NoBucket]
        /\ stale' \in [Threads -> BOOLEAN] /\ ret' \in [Threads -> Vals \cup {None}]
    BY <1>4, <1>0 DEF Return, table
  <2>2. "idle" \in Labels \ {"store", "move", "exit"} /\ NoBucket \in BucketOrNone
    BY DEF Labels, BucketOrNone
  <2>3. Idle \in Calls \cup {Idle} /\ pc[p] \notin {"store", "move", "exit"}
    BY <2>1
  <2> QED
    BY <2>1, <2>2, <2>3, Without
<1>5. CASE containsKey(p)
  <2>1. /\ UNCHANGED <<aligned, tbl, lock, stores>> /\ pc[p] \notin {"store", "move", "exit", "idle"}
        /\ call' = [call EXCEPT ![p] = call[p]]
        /\ stale' \in [Threads -> BOOLEAN] /\ ret' \in [Threads -> Vals \cup {None}]
    BY <1>5, <1>0 DEF containsKey, Stamp, ReadFirst, ReadHash, ReadKey, ReadNext, CheckStamp,
                      table, locals, Vals
  <2>2. \E l \in Labels \ {"store", "move", "exit", "idle"}, x \in BucketOrNone :
          /\ Goto(p, l) /\ at' = [at EXCEPT ![p] = x]
          /\ l \in {"hash", "key", "next"} => x \in Buckets
    <3>1. CASE Stamp(p)
      BY <3>1, <1>0 DEF Stamp, Labels
    <3>2. CASE ReadFirst(p)
      <4>1. Home[Key(p)] \in Buckets
        BY <3>2, <1>1, KeyIs DEF ReadFirst, IndInv
      <4> DEFINE x == tbl[Home[Key(p)]].first
      <4>2. x \in BucketOrNone
        BY <4>1, <1>0 DEF Records
      <4>3. Goto(p, IF x # NoBucket THEN "hash" ELSE "check") /\ at' = [at EXCEPT ![p] = x]
        BY <3>2 DEF ReadFirst, GoOn
      <4> HIDE DEF x
      <4>4. CASE x # NoBucket
        <5>1. Goto(p, "hash") /\ x \in Buckets
          BY <4>2, <4>3, <4>4 DEF BucketOrNone, Goto
        <5> QED
          BY <4>2, <4>3, <5>1 DEF Labels
      <4>5. CASE x = NoBucket
        <5>1. Goto(p, "check")
          BY <4>3, <4>5 DEF Goto
        <5>2. "check" \in Labels \ {"store", "move", "exit", "idle"}
          BY DEF Labels
        <5> QED
          BY <4>2, <4>3, <5>1, <5>2
      <4> QED
        BY <4>4, <4>5
    <3>3. CASE ReadHash(p)
      BY <3>3, <1>0, <1>1 DEF ReadHash, Labels, ThreadOK, table, locals
    <3>4. CASE ReadKey(p)
      BY <3>4, <1>0, <1>1 DEF ReadKey, Labels, ThreadOK, table, locals
    <3>5. CASE ReadNext(p)
      <4>1. at[p] \in Buckets
        BY <3>5, <1>1 DEF ReadNext, ThreadOK
      <4> DEFINE x == tbl[at[p]].next
      <4>2. x \in BucketOrNone
        BY <4>1, <1>0 DEF Records
      <4>3. Goto(p, IF x # NoBucket THEN "hash" ELSE "check") /\ at' = [at EXCEPT ![p] = x]
        BY <3>5 DEF ReadNext, GoOn
      <4> HIDE DEF x
      <4>4. CASE x # NoBucket
        <5>1. Goto(p, "hash") /\ x \in Buckets
          BY <4>2, <4>3, <4>4 DEF BucketOrNone, Goto
        <5> QED
          BY <4>2, <4>3, <5>1 DEF Labels
      <4>5. CASE x = NoBucket
        <5>1. Goto(p, "check")
          BY <4>3, <4>5 DEF Goto
        <5>2. "check" \in Labels \ {"store", "move", "exit", "idle"}
          BY DEF Labels
        <5> QED
          BY <4>2, <4>3, <5>1, <5>2
      <4> QED
        BY <4>4, <4>5
    <3>6. CASE CheckStamp(p)
      BY <3>6, <1>0, <1>1 DEF CheckStamp, Labels, table, locals
    <3> QED
      BY <1>5, <3>1, <3>2, <3>3, <3>4, <3>5, <3>6 DEF containsKey
  <2>3. PICK l \in Labels \ {"store", "move", "exit", "idle"}, x \in BucketOrNone :
          /\ Goto(p, l) /\ at' = [at EXCEPT ![p] = x]
          /\ l \in {"hash", "key", "next"} => x \in Buckets
    BY <2>2
  <2>4. call[p] # Idle /\ call[p] \in Calls \cup {Idle}
    BY <2>1, <1>0, <1>1 DEF ThreadOK
  <2>5. l \in Labels \ {"store", "move", "exit"} /\ l # "idle" /\ pc[p] \notin {"store", "move", "exit"}
    BY <2>1, <2>3
  <2> QED
    BY <2>1, <2>3, <2>4, <2>5, Without
<1> QED
  BY <1>3, <1>4, <1>5

(* The place found for a put.                                               *)
PutsFirst(x, y, k) == PutStores(x, k) = Fill(y, k) \o <<Set(y, "next", tbl[x].first), Set(x, "first", y)>>
PutsAfter(x, v, y, k) ==
  /\ tbl[v].hash # None /\ Home[tbl[v].hash] = x
  /\ PutStores(x, k) = Fill(y, k) \o <<Set(y, "next", tbl[v].next), Set(v, "next", y)>>

LEMMA PutIs ==
  ASSUME tbl \in [Buckets -> Records], SoundTable(tbl), NEW k \in Keys,
         Find(Home[k], k) = {},
         FreeInLine(Home[k]) \cup Ahead(Home[k]) \cup Behind(Home[k]) # {}
  PROVE  /\ \A w \in Buckets : tbl[w].hash # k
         /\ \E y \in Buckets :
              /\ tbl[y].hash = None
              /\ PutsFirst(Home[k], y, k) \/ \E v \in Buckets : PutsAfter(Home[k], v, y, k)
<1> DEFINE x == Home[k]
<1>0. x \in Buckets
  BY KeysAssumption
<1>1. PICK pos \in Positions : Sound(tbl, pos)
  BY DEF SoundTable
<1> DEFINE L == List(x)
<1>2. /\ L \in Seq(Buckets) /\ Len(L) \in Nat
      /\ \A n \in 1..Len(L) :
           LET y == L[n] IN y \in Buckets /\ tbl[y].hash # None /\ Home[tbl[y].hash] = x /\ pos[y] = n
      /\ \A y \in Buckets : tbl[y].hash # None /\ Home[tbl[y].hash] = x =>
           pos[y] \in 1..Len(L) /\ L[pos[y]] = y
  BY <1>0, <1>1, ListEntries
<1>3. \A w \in Buckets : tbl[w].hash # k
  <2> SUFFICES ASSUME NEW w \in Buckets, tbl[w].hash = k PROVE FALSE
    OBVIOUS
  <2>1. k # None
    BY KeysAssumption DEF None
  <2>2. pos[w] \in 1..Len(L) /\ L[pos[w]] = w
    BY <2>1, <1>2
  <2>3. pos[w] \in Find(x, k)
    BY <2>2 DEF Find
  <2> QED
    BY <2>3
<1> HIDE DEF L
<1>4. CASE FreeInLine(x) # {}
  <2> DEFINE y == First(FreeInLine(x), x)
  <2>1. FreeInLine(x) \in SUBSET Buckets /\ \A z \in FreeInLine(x) : tbl[z].hash = None
    BY DEF FreeInLine, Free
  <2>2. y \in Buckets /\ tbl[y].hash = None
    BY <1>0, <1>4, <2>1, FirstIs
  <2>3. PutStores(x, k) = add_key_to_begining_of_list(x, y, k)
    BY <1>4 DEF PutStores
  <2> HIDE DEF y
  <2>4. CASE tbl[x].first = x
    <3>1. PutStores(x, k) = Fill(y, k) \o <<Set(y, "next", tbl[x].next), Set(x, "next", y)>>
      BY <2>3, <2>4, <1>0 DEF add_key_to_begining_of_list
    <3>2. tbl[x].hash # None /\ Home[tbl[x].hash] = x
      BY <2>4, <1>0, <1>1, SoundFacts
    <3> QED
      BY <3>1, <3>2, <2>2, <1>0, <1>3 DEF PutsAfter
  <2>5. CASE tbl[x].first # x
    <3>1. PutStores(x, k) = Fill(y, k) \o <<Set(y, "next", tbl[x].first), Set(x, "first", y)>>
      BY <2>3, <2>5, <1>0 DEF add_key_to_begining_of_list
    <3> QED
      BY <3>1, <2>2, <1>3 DEF PutsFirst
  <2> QED
    BY <2>4, <2>5
<1>5. CASE FreeInLine(x) = {}
  <2> DEFINE y == IF Ahead(x) # {} THEN First(Ahead(x), x) ELSE First(Behind(x), x)
  <2>1. /\ Ahead(x) \in SUBSET Buckets /\ \A z \in Ahead(x) : tbl[z].hash = None
        /\ Behind(x) \in SUBSET Buckets /\ \A z \in Behind(x) : tbl[z].hash = None
    BY DEF Ahead, Behind, Free
  <2>2. y \in Buckets /\ tbl[y].hash = None
    <3>1. CASE Ahead(x) # {}
      BY <3>1, <1>0, <2>1, FirstIs
    <3>2. CASE Ahead(x) = {}
      <4>1. Behind(x) # {}
        BY <1>5, <3>2
      <4> QED
        BY <3>2, <4>1, <1>0, <2>1, FirstIs
    <3> QED
      BY <3>1, <3>2
  <2>3. PutStores(x, k) = add_key_to_end_of_list(x, y, k)
    BY <1>5 DEF PutStores
  <2> HIDE DEF y
  <2>4. CASE Len(L) = 0
    <3>1. LinkTo(x, Len(List(x)) + 1, y) = Set(x, "first", y)
      BY <2>4 DEF LinkTo, L
    <3>2. tbl[x].first = NoBucket
      <4> SUFFICES ASSUME tbl[x].first # NoBucket PROVE FALSE
        OBVIOUS
      <4>1. tbl[x].first \in Buckets /\ tbl[tbl[x].first].hash # None /\ Home[tbl[tbl[x].first].hash] = x
        BY <1>0, <1>1, SoundFacts
      <4> QED
        BY <4>1, <1>2, <2>4
    <3>3. PutStores(x, k) = Fill(y, k) \o <<Set(y, "next", tbl[x].first), Set(x, "first", y)>>
      BY <2>3, <3>1, <3>2 DEF add_key_to_end_of_list
    <3> QED
      BY <3>3, <2>2, <1>3 DEF PutsFirst
  <2>5. CASE Len(L) # 0
    <3> DEFINE v == L[Len(L)]
    <3>1. v \in Buckets /\ tbl[v].hash # None /\ Home[tbl[v].hash] = x /\ pos[v] = Len(L)
      BY <1>2, <2>5
    <3>2. LinkTo(x, Len(List(x)) + 1, y) = Set(v, "next", y)
      <4>1. Len(L) + 1 # 1 /\ Len(L) + 1 - 1 = Len(L)
        BY <1>2, <2>5
      <4> QED
        BY <4>1 DEF LinkTo, L
    <3> HIDE DEF v
    <3>3. tbl[v].next = NoBucket
      <4> SUFFICES ASSUME tbl[v].next # NoBucket PROVE FALSE
        OBVIOUS
      <4> DEFINE z == tbl[v].next
      <4>1. z \in Buckets /\ tbl[z].hash # None /\ Home[tbl[z].hash] = x /\ pos[z] = Len(L) + 1
        BY <3>1, <1>1, SoundFacts
      <4> HIDE DEF z
      <4> QED
        BY <4>1, <1>2
    <3>4. PutStores(x, k) = Fill(y, k) \o <<Set(y, "next", tbl[v].next), Set(v, "next", y)>>
      BY <2>3, <3>2, <3>3 DEF add_key_to_end_of_list
    <3> QED
      BY <3>1, <3>4, <2>2, <1>3 DEF PutsAfter
  <2> QED
    BY <2>4, <2>5
<1> QED
  BY <1>4, <1>5

(* What the stores of a put lead to.                                        *)
LEMMA PutLeads ==
  ASSUME tbl \in [Buckets -> Records], SoundTable(tbl), NEW k \in Keys,
         Find(Home[k], k) = {},
         FreeInLine(Home[k]) \cup Ahead(Home[k]) \cup Behind(Home[k]) # {}
  PROVE  /\ PutStores(Home[k], k) \in Seq(Stores)
         /\ \E T \in [Buckets -> Records] : SoundTable(T) /\ Leads(tbl, Items(PutStores(Home[k], k)), T)
<1> DEFINE x == Home[k]
<1>0. x \in Buckets
  BY KeysAssumption
<1>1. PICK pos \in Positions : Sound(tbl, pos)
  BY DEF SoundTable
<1>2. PICK y \in Buckets : /\ tbl[y].hash = None
                           /\ PutsFirst(x, y, k) \/ \E v \in Buckets : PutsAfter(x, v, y, k)
  BY PutIs
<1>3. \A w \in Buckets : tbl[w].hash # k
  BY PutIs
<1>4. CASE PutsFirst(x, y, k)
  BY <1>0, <1>1, <1>2, <1>3, <1>4, PutFirstStores, PutFirstSound DEF SoundTable, PutsFirst
<1>5. ASSUME NEW v \in Buckets, PutsAfter(x, v, y, k)
      PROVE  /\ PutStores(x, k) \in Seq(Stores)
             /\ \E T \in [Buckets -> Records] : SoundTable(T) /\ Leads(tbl, Items(PutStores(x, k)), T)
  <2>1. v # y /\ tbl[v].hash # None /\ Home[tbl[v].hash] = x
    BY <1>2, <1>5 DEF PutsAfter
  <2>2. PutStores(x, k) \in Seq(Stores) /\ Leads(tbl, Items(PutStores(x, k)), PutAfter(tbl, v, y, k))
    BY <2>1, <1>5, PutAfterStores DEF PutsAfter
  <2>3. PutAfter(tbl, v, y, k) \in [Buckets -> Records] /\ SoundTable(PutAfter(tbl, v, y, k))
    BY <2>1, <1>1, <1>2, <1>3, PutAfterSound DEF SoundTable
  <2> QED
    BY <2>2, <2>3
<1> QED
  BY <1>2, <1>4, <1>5

LEMMA RemoveLeads ==
  ASSUME tbl \in [Buckets -> Records], SoundTable(tbl), NEW k \in Keys, NEW n \in Find(Home[k], k)
  PROVE  LET s == remove_key(Home[k], n)
             y == List(Home[k])[n]
         IN  /\ s \in Seq(Stores) /\ y \in Buckets
             /\ \E T \in [Buckets -> Records] : SoundTable(T) /\ Leads(tbl, Items(s), T) /\ T[y].hash = None
<1> DEFINE x == Home[k]
           L == List(x)
           y == L[n]
           s == remove_key(x, n)
<1>0. x \in Buckets
  BY KeysAssumption
<1>1. PICK pos \in Positions : Sound(tbl, pos)
  BY DEF SoundTable
<1>2. /\ Len(L) \in Nat
      /\ \A i \in 1..Len(L) :
           LET z == L[i] IN z \in Buckets /\ tbl[z].hash # None /\ Home[tbl[z].hash] = x /\ pos[z] = i
      /\ \A z \in Buckets : tbl[z].hash # None /\ Home[tbl[z].hash] = x =>
           pos[z] \in 1..Len(L) /\ L[pos[z]] = z
  BY <1>0, <1>1, ListEntries
<1>3. n \in 1..Len(L) /\ y \in Buckets /\ tbl[y].hash # None /\ Home[tbl[y].hash] = x /\ pos[y] = n
  BY <1>2 DEF Find
<1>4. s = Clear(y) \o <<LinkTo(x, n, tbl[y].next), StampStore, Set(y, "next", NoBucket)>>
  BY DEF remove_key
<1> HIDE DEF s
<1>5. CASE n = 1
  <2>1. s = Clear(y) \o <<Set(x, "first", tbl[y].next), StampStore, Set(y, "next", NoBucket)>>
    BY <1>4, <1>5 DEF LinkTo
  <2> HIDE DEF y, L
  <2>2. tbl[Home[tbl[y].hash]].first = y
    BY <1>1, <1>3, <1>5 DEF Sound
  <2> DEFINE T == DropFirst(tbl, x, y)
  <2>3. s \in Seq(Stores) /\ Leads(tbl, Items(s), T)
    BY <2>1, <1>0, <1>3, DropFirstStores
  <2>4. T \in [Buckets -> Records] /\ SoundTable(T)
    BY <2>2, <1>1, <1>3, DropFirstSound DEF SoundTable
  <2>5. T[y].hash = None
    BY <1>3 DEF DropFirst
  <2> HIDE DEF T
  <2> QED
    BY <2>3, <2>4, <2>5, <1>3 DEF s, y, L
<1>6. CASE n # 1
  <2> DEFINE v == L[n - 1]
  <2>0. n - 1 \in 1..Len(L)
    BY <1>2, <1>3, <1>6
  <2>1. s = Clear(y) \o <<Set(v, "next", tbl[y].next), StampStore, Set(y, "next", NoBucket)>>
    BY <1>4, <1>6 DEF LinkTo
  <2>2. v \in Buckets /\ tbl[v].next = y
    <3> HIDE DEF y, L
    <3>1. PICK z \in Buckets : /\ tbl[z].hash # None /\ Home[tbl[z].hash] = x
                               /\ pos[z] = n - 1 /\ tbl[z].next = y
      BY <1>1, <1>3, <1>6 DEF Sound
    <3>2. L[n - 1] = z
      BY <3>1, <1>2
    <3> QED
      BY <3>1, <3>2
  <2> HIDE DEF y, L, v
  <2>3. v # y
    BY <2>2, <1>1, <1>3, SoundFacts
  <2> DEFINE T == DropAfter(tbl, v, y)
  <2>4. s \in Seq(Stores) /\ Leads(tbl, Items(s), T)
    BY <2>1, <2>2, <2>3, <1>3, DropAfterStores
  <2>5. T \in [Buckets -> Records] /\ SoundTable(T)
    BY <2>2, <1>1, <1>3, DropAfterSound DEF SoundTable
  <2>6. T[y].hash = None
    BY <1>3 DEF DropAfter
  <2> HIDE DEF T
  <2> QED
    BY <2>4, <2>5, <2>6, <1>3 DEF s, y, L
<1> QED
  BY <1>5, <1>6

LEMMA MoveLeads ==
  ASSUME tbl \in [Buckets -> Records], SoundTable(tbl), NEW y \in Buckets, tbl[y].hash = None,
         NEW m \in Movable(y)
  PROVE  LET s == MoveStores(y, m[1], m[2])
         IN  /\ s \in Seq(Stores)
             /\ \E T \in [Buckets -> Records] : SoundTable(T) /\ Leads(tbl, Items(s), T)
<1> DEFINE x == m[1]
           n == m[2]
           L == List(x)
           z == L[n]
           s == MoveStores(y, x, n)
<1>0. x \in Buckets /\ n \in 1..NumBuckets /\ n <= Len(L)
  BY LineInside DEF Movable
<1>1. PICK pos \in Positions : Sound(tbl, pos)
  BY DEF SoundTable
<1>2. /\ Len(L) \in Nat
      /\ \A i \in 1..Len(L) :
           LET w == L[i] IN w \in Buckets /\ tbl[w].hash # None /\ Home[tbl[w].hash] = x /\ pos[w] = i
      /\ \A w \in Buckets : tbl[w].hash # None /\ Home[tbl[w].hash] = x =>
           pos[w] \in 1..Len(L) /\ L[pos[w]] = w
  BY <1>0, <1>1, ListEntries
<1>3. /\ n \in 1..Len(L) /\ z \in Buckets /\ tbl[z].hash # None /\ Home[tbl[z].hash] = x /\ pos[z] = n
      /\ tbl[z].hash \in Keys /\ y # z
  <2>1. n \in 1..Len(L)
    BY <1>0, <1>2, SizesAssumption
  <2>2. z \in Buckets /\ tbl[z].hash # None /\ Home[tbl[z].hash] = x /\ pos[z] = n
    BY <1>2, <2>1
  <2> HIDE DEF z
  <2>3. tbl[z].hash \in Keys /\ y # z
    BY <2>2 DEF Records
  <2> QED
    BY <2>1, <2>2, <2>3 DEF z
<1>4. s = Fill(y, tbl[z].hash) \o <<Set(y, "next", tbl[z].next), LinkTo(x, n, y), StampStore>>
            \o Clear(z) \o <<Set(z, "next", NoBucket)>>
  BY DEF MoveStores
<1> HIDE DEF s
<1>5. CASE n = 1
  <2>1. s = Fill(y, tbl[z].hash) \o <<Set(y, "next", tbl[z].next), Set(x, "first", y), StampStore>>
              \o Clear(z) \o <<Set(z, "next", NoBucket)>>
    BY <1>4, <1>5 DEF LinkTo
  <2> HIDE DEF z, L
  <2>2. tbl[Home[tbl[z].hash]].first = z
    BY <1>1, <1>3, <1>5 DEF Sound
  <2> DEFINE T == MoveFirst(tbl, x, y, z)
  <2> HIDE DEF x
  <2>3. s \in Seq(Stores) /\ Leads(tbl, Items(s), T)
    BY <2>1, <1>0, <1>3, MoveFirstStores
  <2>4. T \in [Buckets -> Records] /\ SoundTable(T)
    BY <2>2, <1>1, <1>3, MoveFirstSound DEF SoundTable
  <2> HIDE DEF T
  <2> QED
    BY <2>3, <2>4 DEF s, x
<1>6. CASE n # 1
  <2> DEFINE v == L[n - 1]
  <2>0. n - 1 \in 1..Len(L)
    BY <1>2, <1>3, <1>6
  <2>1. s = Fill(y, tbl[z].hash) \o <<Set(y, "next", tbl[z].next), Set(v, "next", y), StampStore>>
              \o Clear(z) \o <<Set(z, "next", NoBucket)>>
    BY <1>4, <1>6 DEF LinkTo
  <2>2. v \in Buckets /\ tbl[v].next = z
    <3> HIDE DEF z, L
    <3>1. PICK w \in Buckets : /\ tbl[w].hash # None /\ Home[tbl[w].hash] = x
                               /\ pos[w] = n - 1 /\ tbl[w].next = z
      BY <1>1, <1>3, <1>6 DEF Sound
    <3>2. L[n - 1] = w
      BY <3>1, <1>2
    <3> QED
      BY <3>1, <3>2
  <2> HIDE DEF z, L, v
  <2>3. v # z /\ v # y
    BY <2>2, <1>1, <1>3, SoundFacts
  <2> DEFINE T == MoveAfter(tbl, v, y, z)
  <2> HIDE DEF x
  <2>4. s \in Seq(Stores) /\ Leads(tbl, Items(s), T)
    BY <2>1, <2>2, <2>3, <1>0, <1>3, MoveAfterStores
  <2>5. T \in [Buckets -> Records] /\ SoundTable(T)
    BY <2>2, <1>1, <1>3, MoveAfterSound DEF SoundTable
  <2> HIDE DEF T
  <2> QED
    BY <2>4, <2>5 DEF s, x
<1> QED
  BY <1>5, <1>6

-----------------------------------------------------------------------------
(* Steps of updates.                                                        *)
LEMMA Takes ==
  ASSUME TypeOK, NEW p \in Threads, pc[p] = "lock", lock = None, lock' = p,
         NEW l \in {"store", "exit"}, Goto(p, l)
  PROVE  /\ pc' \in [Threads -> Labels] /\ pc'[p] = l /\ \A q \in Threads \ {p} : pc'[q] = pc[q]
         /\ \A q \in Threads : pc'[q] \in {"store", "move", "exit"} <=> lock' = q
<1>1. pc' \in [Threads -> Labels] /\ pc'[p] = l /\ \A q \in Threads \ {p} : pc'[q] = pc[q]
  BY DEF TypeOK, Goto, Labels
<1>2. \A q \in Threads \ {p} : pc[q] \notin {"store", "move", "exit"}
  BY ThreadsAssumption DEF TypeOK
<1> QED
  BY <1>1, <1>2

LEMMA PutStep ==
  ASSUME IndInv, NEW p \in Threads, UNCHANGED aligned, putIfAbsent(p)
  PROVE  IndInv'
<1> DEFINE x == Home[Key(p)]
           k == Key(p)
<1>0. /\ TypeOK /\ ThreadOK(p) /\ pc[p] = "lock" /\ call[p].op = "put" /\ lock = None
      /\ UNCHANGED <<tbl, call, at, stale, ret>>
  BY DEF putIfAbsent, CanLock, IndInv
<1>1. k \in Keys /\ p # None /\ x \in Buckets /\ SoundTable(tbl) /\ tbl \in [Buckets -> Records]
  BY <1>0, KeyIs DEF IndInv, TypeOK
<1>2. CASE Find(x, k) # {}
  <2>1. Goto(p, "done") /\ UNCHANGED <<lock, stores>>
    BY <1>2 DEF putIfAbsent
  <2>2. "done" \in Labels \ {"store", "move", "exit"} /\ pc[p] \notin {"store", "move", "exit"}
    BY <1>0 DEF Labels
  <2>3. /\ call[p] \in Calls \cup {Idle} /\ call' = [call EXCEPT ![p] = call[p]] /\ call[p] # Idle
        /\ at[p] \in BucketOrNone /\ at' = [at EXCEPT ![p] = at[p]]
        /\ stale' \in [Threads -> BOOLEAN] /\ ret' \in [Threads -> Vals \cup {None}]
    BY <1>0 DEF TypeOK, ThreadOK
  <2>4. UNCHANGED <<aligned, tbl, lock, stores>>
    BY <1>0, <2>1
  <2> QED
    BY <2>1, <2>2, <2>3, <2>4, Without
<1>3. CASE Find(x, k) = {} /\ FreeInLine(x) \cup Ahead(x) \cup Behind(x) = {}
  <2>1. lock' = p /\ Goto(p, "exit") /\ UNCHANGED stores
    BY <1>3 DEF putIfAbsent
  <2>2. TypeOK'
    BY <1>0, <2>1, Takes DEF TypeOK
  <2>3. \A q \in Threads \ {p} : ThreadOK(q)'
    BY <1>0, <2>1, Others DEF Goto, TypeOK
  <2>4. ThreadOK(p)'
    BY <1>0, <2>1 DEF ThreadOK, Goto, TypeOK
  <2> QED
    BY <1>1, <2>1, <2>2, <2>3, <2>4 DEF IndInv
<1>4. CASE Find(x, k) = {} /\ FreeInLine(x) \cup Ahead(x) \cup Behind(x) # {}
  <2>1. lock' = p /\ Goto(p, "store") /\ stores' = [stores EXCEPT ![p] = PutStores(x, k)]
    BY <1>4 DEF putIfAbsent
  <2>2. /\ PutStores(x, k) \in Seq(Stores)
        /\ \E T \in [Buckets -> Records] : SoundTable(T) /\ Leads(tbl, Items(PutStores(x, k)), T)
    BY <1>1, <1>4, PutLeads
  <2>3. pc'[p] = "store" /\ stores'[p] = PutStores(x, k)
    BY <1>0, <2>1 DEF TypeOK, Goto
  <2>4. TypeOK'
    BY <1>0, <2>1, <2>2, Takes DEF TypeOK
  <2>5. \A q \in Threads \ {p} : ThreadOK(q)'
    BY <1>0, <2>1, Others DEF Goto, TypeOK
  <2>6. ThreadOK(p)'
    BY <1>0, <2>2, <2>3 DEF ThreadOK, Updating
  <2> QED
    BY <1>1, <2>1, <2>4, <2>5, <2>6 DEF IndInv
<1> QED
  BY <1>2, <1>3, <1>4

LEMMA RemoveStep ==
  ASSUME IndInv, NEW p \in Threads, UNCHANGED aligned, remove(p)
  PROVE  IndInv'
<1> DEFINE x == Home[Key(p)]
           k == Key(p)
<1>0. /\ TypeOK /\ ThreadOK(p) /\ pc[p] = "lock" /\ call[p].op = "remove" /\ lock = None
      /\ UNCHANGED <<tbl, call, stale, ret>>
  BY DEF remove, CanLock, IndInv
<1>1. k \in Keys /\ p # None /\ x \in Buckets /\ SoundTable(tbl) /\ tbl \in [Buckets -> Records]
  BY <1>0, KeyIs DEF IndInv, TypeOK
<1>2. CASE Find(x, k) = {}
  <2>1. Goto(p, "done") /\ UNCHANGED <<lock, stores, at>>
    BY <1>2 DEF remove
  <2>2. "done" \in Labels \ {"store", "move", "exit"} /\ pc[p] \notin {"store", "move", "exit"}
    BY <1>0 DEF Labels
  <2>3. /\ call[p] \in Calls \cup {Idle} /\ call' = [call EXCEPT ![p] = call[p]] /\ call[p] # Idle
        /\ at[p] \in BucketOrNone /\ at' = [at EXCEPT ![p] = at[p]]
        /\ stale' \in [Threads -> BOOLEAN] /\ ret' \in [Threads -> Vals \cup {None}]
    BY <1>0, <2>1 DEF TypeOK, ThreadOK
  <2>4. UNCHANGED <<aligned, tbl, lock, stores>>
    BY <1>0, <2>1
  <2> QED
    BY <2>1, <2>2, <2>3, <2>4, Without
<1>3. CASE Find(x, k) # {}
  <2> DEFINE n == CHOOSE n \in Find(x, k) : TRUE
             s == remove_key(x, n)
             y == List(x)[n]
  <2>1. /\ lock' = p /\ Goto(p, "store") /\ stores' = [stores EXCEPT ![p] = s]
        /\ at' = [at EXCEPT ![p] = y]
    BY <1>3 DEF remove
  <2>2. n \in Find(x, k)
    BY <1>3
  <2> HIDE DEF n
  <2>3. /\ s \in Seq(Stores) /\ y \in Buckets
        /\ \E T \in [Buckets -> Records] : SoundTable(T) /\ Leads(tbl, Items(s), T) /\ T[y].hash = None
    BY <1>1, <2>2, RemoveLeads
  <2> HIDE DEF s, y
  <2>4. pc'[p] = "store" /\ stores'[p] = s /\ at'[p] = y
    BY <1>0, <2>1 DEF TypeOK, Goto
  <2>5. TypeOK'
    BY <1>0, <2>1, <2>3, Takes DEF TypeOK, BucketOrNone
  <2>6. \A q \in Threads \ {p} : ThreadOK(q)'
    BY <1>0, <2>1, Others DEF Goto, TypeOK
  <2>7. ThreadOK(p)'
    BY <1>0, <2>3, <2>4 DEF ThreadOK, Updating
  <2> QED
    BY <1>1, <2>1, <2>5, <2>6, <2>7 DEF IndInv
<1> QED
  BY <1>2, <1>3

LEMMA StoreStep ==
  ASSUME IndInv, NEW p \in Threads, UNCHANGED aligned, Store(p)
  PROVE  IndInv'
<1> DEFINE h == Head(stores[p])
           r == Tail(stores[p])
<1>0. /\ TypeOK /\ ThreadOK(p) /\ pc[p] \in {"store", "move"} /\ stores[p] # << >> /\ lock = p
      /\ UNCHANGED <<lock, pc, call, at>> /\ stores' = [stores EXCEPT ![p] = r]
      /\ p # None /\ stores[p] \in Seq(Stores) /\ tbl \in [Buckets -> Records] /\ Updating(p)
  BY ThreadsAssumption DEF Store, IndInv, TypeOK, ThreadOK
<1>1. r \in Seq(Stores) /\ h \in Stores /\ Items(stores[p]) = {h} \cup Items(r)
  BY <1>0, ItemsOfTail
<1>2. PICK T \in [Buckets -> Records] :
        /\ SoundTable(T) /\ Leads(tbl, {h} \cup Items(r), T)
        /\ pc[p] = "store" /\ call[p].op = "remove" => at[p] \in Buckets /\ T[at[p]].hash = None
  BY <1>0, <1>1 DEF Updating
<1>3. IF h.field = "stamp" THEN stale' = [q \in Threads |-> pc[q] # "idle"] /\ UNCHANGED tbl
      ELSE tbl' = [tbl EXCEPT ![h.bucket][h.field] = h.value] /\ UNCHANGED stale
  BY DEF Store
<1>4. ret' = [ret EXCEPT ![p] = IF Effective(p) THEN Present ELSE @]
  BY DEF Store
<1> HIDE DEF h, r
<1>5. tbl' \in [Buckets -> Records] /\ Leads(tbl', Items(r), T)
  <2>1. CASE h.field = "stamp"
    BY <2>1, <1>0, <1>2, <1>3, StampLeads
  <2>2. CASE h.field # "stamp"
    <3> DEFINE u == [tbl EXCEPT ![h.bucket][h.field] = h.value]
    <3>1. u \in [Buckets -> Records] /\ Leads(u, Items(r), T)
      BY <2>2, <1>0, <1>1, <1>2, StoreLeads
    <3>2. tbl' = u
      BY <2>2, <1>3
    <3> QED
      BY <3>1, <3>2
  <2> QED
    BY <2>1, <2>2
<1>6. ret' \in [Threads -> Vals \cup {None}] /\ stale' \in [Threads -> BOOLEAN]
  BY <1>0, <1>3, <1>4 DEF TypeOK, Vals
<1>7. stores' \in [Threads -> Seq(Stores)] /\ stores'[p] = r
  BY <1>0, <1>1 DEF TypeOK
<1>8. TypeOK'
  BY <1>0, <1>5, <1>6, <1>7 DEF TypeOK
<1>9. \A q \in Threads \ {p} : ThreadOK(q)'
  BY <1>0, Others DEF TypeOK
<1>10. ThreadOK(p)'
  BY <1>0, <1>2, <1>5, <1>7 DEF ThreadOK, Updating
<1> QED
  BY <1>0, <1>8, <1>9, <1>10 DEF IndInv

(* When all is stored the table is the one in view.                         *)
LEMMA Stored ==
  ASSUME IndInv, NEW p \in Threads, pc[p] \in {"store", "move"}, stores[p] = << >>
  PROVE  /\ SoundTable(tbl)
         /\ pc[p] = "store" /\ call[p].op = "remove" => at[p] \in Buckets /\ tbl[at[p]].hash = None
<1>1. tbl \in [Buckets -> Records] /\ Updating(p) /\ Items(stores[p]) = {}
  BY ItemsOfNone DEF IndInv, TypeOK, ThreadOK
<1>2. PICK T \in [Buckets -> Records] :
        /\ SoundTable(T) /\ Leads(tbl, {}, T)
        /\ pc[p] = "store" /\ call[p].op = "remove" => at[p] \in Buckets /\ T[at[p]].hash = None
  BY <1>1 DEF Updating
<1>3. tbl = T
  BY <1>1, <1>2, AllStored
<1> QED
  BY <1>2, <1>3

LEMMA FirstMovable ==
  ASSUME NEW y \in Buckets, Movable(y) # {}
  PROVE  LET m == CHOOSE m \in Movable(y) : \A o \in Movable(y) :
                    m[1] < o[1] \/ (m[1] = o[1] /\ m[2] <= o[2])
         IN  m \in Movable(y)
<1>1. Movable(y) \in SUBSET (Nat \X Nat)
  <2>1. LineOf(y) \subseteq Nat
    BY LineInside DEF Buckets
  <2> QED
    BY <2>1, SizesAssumption DEF Movable
<1>2. \E u \in Movable(y) : \A o \in Movable(y) : u[1] < o[1] \/ (u[1] = o[1] /\ u[2] <= o[2])
  BY <1>1, LeastPair
<1> QED
  BY <1>2

LEMMA MoveStep ==
  ASSUME IndInv, NEW p \in Threads, UNCHANGED aligned, optimize_cacheline_use(p)
  PROVE  IndInv'
<1> DEFINE y == at[p]
           m == CHOOSE m \in Movable(at[p]) : \A o \in Movable(at[p]) :
                  m[1] < o[1] \/ (m[1] = o[1] /\ m[2] <= o[2])
           s == MoveStores(y, m[1], m[2])
<1>0. /\ TypeOK /\ ThreadOK(p) /\ pc[p] = "store" /\ stores[p] = << >> /\ lock = p
      /\ call[p].op = "remove" /\ Movable(y) # {} /\ UNCHANGED <<tbl, lock, call, at, stale, ret>>
      /\ Goto(p, "move") /\ stores' = [stores EXCEPT ![p] = s] /\ p # None
      /\ tbl \in [Buckets -> Records]
  BY ThreadsAssumption DEF optimize_cacheline_use, IndInv, TypeOK, table
<1>1. SoundTable(tbl) /\ y \in Buckets /\ tbl[y].hash = None
  BY <1>0, Stored
<1>2. m \in Movable(y)
  BY <1>0, <1>1, FirstMovable
<1> HIDE DEF m
<1>3. /\ s \in Seq(Stores)
      /\ \E T \in [Buckets -> Records] : SoundTable(T) /\ Leads(tbl, Items(s), T)
  BY <1>0, <1>1, <1>2, MoveLeads
<1> HIDE DEF s
<1>4. pc'[p] = "move" /\ stores'[p] = s
  BY <1>0 DEF TypeOK, Goto
<1>5. TypeOK'
  BY <1>0, <1>3 DEF TypeOK, Goto, Labels
<1>6. \A q \in Threads \ {p} : ThreadOK(q)'
  BY <1>0, Others DEF Goto, TypeOK
<1>7. ThreadOK(p)'
  BY <1>0, <1>3, <1>4 DEF ThreadOK, Updating
<1> QED
  BY <1>0, <1>5, <1>6, <1>7 DEF IndInv

LEMMA UnlockStep ==
  ASSUME IndInv, NEW p \in Threads, UNCHANGED aligned, Unlock(p)
  PROVE  IndInv'
<1>0. /\ TypeOK /\ ThreadOK(p) /\ pc[p] \in {"store", "move"} /\ stores[p] = << >> /\ lock = p
      /\ UNCHANGED <<tbl, call, at, stale, stores, ret>> /\ lock' = None /\ Goto(p, "done") /\ p # None
  BY ThreadsAssumption DEF Unlock, IndInv, TypeOK, locals
<1>1. SoundTable(tbl)
  BY <1>0, Stored
<1>2. TypeOK'
  BY <1>0, ThreadsAssumption DEF TypeOK, Goto, Labels
<1>3. \A q \in Threads \ {p} : ThreadOK(q)'
  BY <1>0, Others DEF Goto, TypeOK
<1>4. ThreadOK(p)'
  BY <1>0 DEF ThreadOK, Goto, TypeOK
<1> QED
  BY <1>0, <1>1, <1>2, <1>3, <1>4 DEF IndInv

LEMMA Step ==
  ASSUME IndInv, [Next]_vars
  PROVE  IndInv'
<1>1. CASE UNCHANGED vars
  BY <1>1 DEF IndInv, TypeOK, ThreadOK, Updating, vars, table, locals
<1>2. CASE Next
  BY <1>2, QuietSteps, PutStep, RemoveStep, StoreStep, MoveStep, UnlockStep DEF Next, Work
<1> QED
  BY <1>1, <1>2

-----------------------------------------------------------------------------
(* The invariant of the hopscotch table holds, for any threads, keys and    *)
(* sizes, aligned to cache lines or not.                                    *)
THEOREM Invariance == Spec => []IndInv
<1> QED
  BY Initially, Step, PTL DEF Spec

(* Every variable keeps its type, and the lock is held exactly by the       *)
(* thread that works under it.                                              *)
THEOREM TypeInvariance == Spec => []TypeOK
<1>1. IndInv => TypeOK
  BY DEF IndInv
<1> QED
  BY <1>1, Invariance, PTL

(* Between updates every entry is once in the list of its home and in no    *)
(* other, no key has two entries, and free buckets are in no list.          *)
THEOREM ListsStaySound == Spec => []ListsSound
<1>1. IndInv => ListsSound
  <2>1. CASE lock = None
    BY <2>1, SoundLists DEF IndInv, TypeOK, SoundTable
  <2>2. CASE lock # None
    BY <2>2 DEF ListsSound
  <2> QED
    BY <2>1, <2>2
<1> QED
  BY <1>1, Invariance, PTL

-----------------------------------------------------------------------------
(* The table as a map.  Whoever follows the links of the table t from a     *)
(* meets an entry of k: it is in every set that has a and what links of its *)
(* members lead to.                                                         *)
Closed(t, S) == \A w \in S : t[w].next # NoBucket => t[w].next \in S
Meets(t, a, k) ==
  /\ a # NoBucket
  /\ \A S \in SUBSET Buckets : a \in S /\ Closed(t, S) => \E e \in S : t[e].hash = k

(* No link leads to y; the only one that leads to z is field f of b.        *)
LinkFields == {"first", "next"}
Apart(t, y) == \A w \in Buckets, f \in LinkFields : t[w][f] # y
Links(t, b, f, z) ==
  /\ t[b][f] = z
  /\ \A w \in Buckets, g \in LinkFields : t[w][g] = z => w = b /\ g = f

(* No reader that will not start over stands on y.                          *)
Left(y) == \A q \in Threads : pc[q] \in {"hash", "key", "next"} /\ ~ stale[q] => at[q] # y

(* How far the stores of a put are done ...                                 *)
PutStage(p) ==
  \E y, b \in Buckets, f \in LinkFields :
    LET s == stores[p]
        k == Key(p)
        n == tbl[b][f]
    IN  /\ Apart(tbl, y) /\ ~(b = y /\ f = "next")
        /\ \A w \in Buckets \ {y} : tbl[w].hash # k
        /\ \/ /\ s = <<Set(y, "key", k), Set(y, "hash", k), Set(y, "next", n), Set(b, f, y)>>
              /\ tbl[y].hash = None /\ tbl[y].next = NoBucket
           \/ /\ s = <<Set(y, "hash", k), Set(y, "next", n), Set(b, f, y)>>
              /\ tbl[y].hash = None /\ tbl[y].key = k /\ tbl[y].next = NoBucket
           \/ s = <<Set(y, "next", n), Set(b, f, y)>> /\ tbl[y].hash = k /\ tbl[y].next = NoBucket
           \/ s = <<Set(b, f, y)>> /\ tbl[y].hash = k /\ tbl[y].next = n

(* ... of a remove ...                                                      *)
RemoveStage(p) ==
  \E y, b \in Buckets, f \in LinkFields :
    LET s == stores[p]
        k == Key(p)
        n == tbl[y].next
    IN  /\ n # y
        /\ \/ /\ s = <<Set(y, "hash", None), Set(y, "key", None), Set(b, f, n), StampStore,
                       Set(y, "next", NoBucket)>>
              /\ ret[p] = None
              /\ Links(tbl, b, f, y) /\ tbl[y].hash = k
              /\ \A w \in Buckets \ {y} : tbl[w].hash # k
           \/ /\ s = <<Set(y, "key", None), Set(b, f, n), StampStore, Set(y, "next", NoBucket)>>
              /\ ret[p] = Present
              /\ Links(tbl, b, f, y) /\ tbl[y].hash = None
           \/ /\ s = <<Set(b, f, n), StampStore, Set(y, "next", NoBucket)>>
              /\ ret[p] = Present
              /\ Links(tbl, b, f, y) /\ tbl[y].hash = None
           \/ /\ s = <<StampStore, Set(y, "next", NoBucket)>>
              /\ ret[p] = Present
              /\ Apart(tbl, y)
           \/ /\ s = <<Set(y, "next", NoBucket)>>
              /\ ret[p] = Present
              /\ Apart(tbl, y) /\ Left(y)

(* ... and of a move.                                                       *)
MoveStage(p) ==
  \E y, z, b \in Buckets, f \in LinkFields, k \in Keys :
    LET s == stores[p]
        n == tbl[z].next
    IN  /\ y # z /\ n \notin {y, z}
        /\ \/ /\ Apart(tbl, y) /\ Links(tbl, b, f, z) /\ tbl[z].hash = k /\ ~(b = y /\ f = "next")
              /\ \/ /\ s = <<Set(y, "key", k), Set(y, "hash", k), Set(y, "next", n), Set(b, f, y), StampStore,
                             Set(z, "hash", None), Set(z, "key", None), Set(z, "next", NoBucket)>>
                    /\ tbl[y].hash = None /\ tbl[y].next = NoBucket
                 \/ /\ s = <<Set(y, "hash", k), Set(y, "next", n), Set(b, f, y), StampStore,
                             Set(z, "hash", None), Set(z, "key", None), Set(z, "next", NoBucket)>>
                    /\ tbl[y].hash = None /\ tbl[y].key = k /\ tbl[y].next = NoBucket
                 \/ /\ s = <<Set(y, "next", n), Set(b, f, y), StampStore,
                             Set(z, "hash", None), Set(z, "key", None), Set(z, "next", NoBucket)>>
                    /\ tbl[y].hash = k /\ tbl[y].next = NoBucket
                 \/ /\ s = <<Set(b, f, y), StampStore,
                             Set(z, "hash", None), Set(z, "key", None), Set(z, "next", NoBucket)>>
                    /\ tbl[y].hash = k /\ tbl[y].next = n
           \/ /\ Apart(tbl, z)
              /\ s = <<StampStore, Set(z, "hash", None), Set(z, "key", None), Set(z, "next", NoBucket)>>
           \/ /\ Apart(tbl, z) /\ Left(z)
              /\ \/ s = <<Set(z, "hash", None), Set(z, "key", None), Set(z, "next", NoBucket)>>
                 \/ s = <<Set(z, "key", None), Set(z, "next", NoBucket)>> /\ tbl[z].hash = None
                 \/ s = <<Set(z, "next", NoBucket)>>

WriterOK(p) ==
  /\ pc[p] = "store" => call[p].op \in {"put", "remove"}
  /\ pc[p] = "store" /\ call[p].op = "put" =>
       \/ stores[p] = << >> /\ ret[p] = Present
       \/ ret[p] = None /\ PutStage(p)
  /\ pc[p] = "store" /\ call[p].op = "remove" =>
       \/ stores[p] = << >> /\ ret[p] = Present
       \/ RemoveStage(p)
  /\ pc[p] = "move" => ret[p] = Present /\ (stores[p] = << >> \/ MoveStage(p))
  /\ pc[p] \notin {"store", "move", "done"} => ret[p] = None

(* A put that has not yet linked its entry.                                 *)
Putting(k) == \E w \in Threads : /\ pc[w] = "store" /\ call[w].op = "put" /\ Key(w) = k
                                 /\ stores[w] # << >>

(* A reader that has to start over will; another one has the entry before   *)
(* it, if the key was there all the time.                                   *)
ReaderOK(p) ==
  /\ pc[p] \in {"stamp", "first", "hash", "key", "next", "check"} => call[p].op = "get"
  /\ pc[p] \in {"hash", "key"} /\ ~ stale[p] /\ None \notin seen[p] => Meets(tbl, at[p], Key(p))
  /\ pc[p] = "next" /\ ~ stale[p] /\ None \notin seen[p] => Meets(tbl, tbl[at[p]].next, Key(p))
  /\ pc[p] = "check" /\ ~ stale[p] => None \in seen[p]
  /\ pc[p] = "key" => Present \in seen[p] \/ Putting(Key(p))

KeysMatch == \A w \in Buckets : tbl[w].hash # None => tbl[w].key = tbl[w].hash
MapOfEntries == \A k \in Keys, w \in Buckets : tbl[w].hash = k => AbsMap[k] = Present \/ Putting(k)
SeenNow == \A p \in Threads : pc[p] # "idle" => AbsMap[Key(p)] \in seen[p]

AnswersInv == /\ KeysMatch /\ MapOfEntries /\ SeenNow
              /\ \A p \in Threads : WriterOK(p) /\ ReaderOK(p)

(* The members of a list are what its head leads to: nothing else ...       *)
LEMMA OnWalk ==
  ASSUME tbl \in [Buckets -> Records], NEW x \in Buckets, NEW S \in SUBSET Buckets,
         tbl[x].first \in S, Closed(tbl, S), NEW n \in 1..NumBuckets, Walk(x)[n] # NoBucket
  PROVE  Walk(x)[n] \in S
<1> DEFINE w == Walk(x)
           Bad == {m \in 1..NumBuckets : w[m] # NoBucket /\ w[m] \notin S}
<1>1. /\ w[1] = tbl[x].first
      /\ \A m \in 2..NumBuckets : w[m] = IF w[m - 1] = NoBucket THEN NoBucket ELSE tbl[w[m - 1]].next
  BY WalkIs DEF IsWalk
<1> HIDE DEF w
<1> SUFFICES ASSUME Bad # {} PROVE FALSE
  BY DEF w
<1>2. Bad \in SUBSET Nat
  BY SizesAssumption
<1>3. PICK m \in Bad : \A k \in Bad : m <= k
  BY <1>2, Least
<1>4. m # 1
  BY <1>1, <1>3
<1>5. m - 1 \in 1..NumBuckets /\ m \in 2..NumBuckets /\ m - 1 \notin Bad
  BY <1>3, <1>4, SizesAssumption
<1>6. w[m - 1] # NoBucket /\ w[m] = tbl[w[m - 1]].next
  BY <1>1, <1>3, <1>5
<1>7. w[m - 1] \in S
  BY <1>5, <1>6
<1> QED
  BY <1>3, <1>6, <1>7 DEF Closed

LEMMA MembersAre ==
  ASSUME tbl \in [Buckets -> Records], NEW x \in Buckets
  PROVE  /\ \A e : e \in Members(x) <=> \E n \in 1..NumBuckets : Walk(x)[n] # NoBucket /\ e = Walk(x)[n]
         /\ Members(x) \in SUBSET Buckets
<1>1. /\ List(x) \in Seq(Buckets) /\ Len(List(x)) \in 0..NumBuckets
      /\ \A n \in 1..Len(List(x)) : List(x)[n] = Walk(x)[n]
      /\ \A n \in 1..NumBuckets : Walk(x)[n] # NoBucket => n \in 1..Len(List(x))
  BY ListIs
<1>2. \A n \in 1..Len(List(x)) : n \in 1..NumBuckets /\ List(x)[n] # NoBucket /\ List(x)[n] \in Buckets
  BY <1>1, SizesAssumption DEF Buckets, NoBucket
<1> QED
  BY <1>1, <1>2 DEF Members

(* ... and all of it: a walk that does not end comes back to where it was.  *)
LEMMA WalkReturns ==
  ASSUME tbl \in [Buckets -> Records], NEW x \in Buckets, Walk(x)[NumBuckets] # NoBucket,
         tbl[Walk(x)[NumBuckets]].next # NoBucket
  PROVE  \E n \in 1..NumBuckets : Walk(x)[n] = tbl[Walk(x)[NumBuckets]].next
<1> DEFINE w == Walk(x)
           N == NumBuckets
           e == tbl[w[N]].next
<1>0. N \in Nat /\ N >= 1
  BY SizesAssumption
<1>1. /\ w \in [1..N -> BucketOrNone]
      /\ \A m \in 2..N : w[m] = IF w[m - 1] = NoBucket THEN NoBucket ELSE tbl[w[m - 1]].next
  BY WalkIs DEF IsWalk
<1>2. \A n \in 1..N : w[n] # NoBucket
  <2> SUFFICES ASSUME NEW n \in 1..N, w[n] = NoBucket PROVE FALSE
    OBVIOUS
  <2>1. \A m \in n..N : w[m] = NoBucket
    BY WalkStops
  <2> QED
    BY <2>1, <1>0
<1> HIDE DEF w
<1>3. \A n \in 1..N : w[n] \in Buckets
  BY <1>1, <1>2 DEF BucketOrNone
<1>4. e \in Buckets /\ w[N] \in Buckets
  <2>1. w[N] \in Buckets
    BY <1>0, <1>3
  <2>2. tbl[w[N]].next \in BucketOrNone
    BY <2>1 DEF Records
  <2> QED
    BY <2>1, <2>2 DEF BucketOrNone, w
<1> SUFFICES ASSUME \A n \in 1..N : w[n] # e PROVE FALSE
  BY DEF w
<1>5. PICK i \in 1..N, j \in 1..N : i < j /\ w[i] = w[j]
  <2> DEFINE S == 1..N
             B == Buckets \ {e}
             g == [n \in S |-> w[n]]
  <2>1. IsFiniteSet(S) /\ Cardinality(S) = N
    BY <1>0, FS_Interval
  <2>2. IsFiniteSet(Buckets) /\ Cardinality(Buckets) = N
    BY <1>0, FS_Interval DEF Buckets
  <2>3. IsFiniteSet(B) /\ Cardinality(B) = N - 1
    BY <1>4, <2>2, FS_RemoveElement
  <2>4. g \in [S -> B]
    BY <1>3
  <2>5. Cardinality(B) < Cardinality(S)
    BY <2>1, <2>3, <1>0
  <2>6. \A n \in S : g[n] = w[n]
    OBVIOUS
  <2> HIDE DEF S, B, g
  <2>7. \E m, n \in S : m # n /\ g[m] = g[n]
    BY <2>1, <2>3, <2>4, <2>5, FS_PigeonHole
  <2>8. PICK m, n \in S : m # n /\ w[m] = w[n]
    BY <2>6, <2>7
  <2>9. m < n \/ n < m
    BY <2>8 DEF S
  <2> QED
    BY <2>8, <2>9 DEF S
<1>6. \A d \in 0..(N - j) : w[i + d] = w[j + d]
  <2> DEFINE Bad == {d \in 0..(N - j) : w[i + d] # w[j + d]}
  <2> SUFFICES ASSUME Bad # {} PROVE FALSE
    OBVIOUS
  <2>1. Bad \in SUBSET Nat
    BY <1>0, <1>5
  <2>2. PICK d \in Bad : \A k \in Bad : d <= k
    BY <2>1, Least
  <2>3. d # 0
    BY <1>0, <1>5, <2>2
  <2>4. /\ d \in Nat /\ i \in Nat /\ j \in Nat /\ d - 1 \in 0..(N - j) /\ d - 1 \notin Bad
        /\ i + d \in 2..N /\ j + d \in 2..N /\ i + (d - 1) = (i + d) - 1 /\ j + (d - 1) = (j + d) - 1
    BY <1>0, <1>5, <2>2, <2>3
  <2>5. w[(i + d) - 1] = w[(j + d) - 1]
    BY <2>4
  <2> QED
    BY <1>1, <2>2, <2>4, <2>5
<1>7. /\ i + (N - j) \in 1..N /\ i + (N - j) + 1 \in 2..N /\ N - j \in 0..(N - j) /\ j + (N - j) = N
      /\ (i + (N - j) + 1) - 1 = i + (N - j)
  BY <1>0, <1>5
<1>8. w[i + (N - j)] = w[N]
  BY <1>6, <1>7
<1>9. w[i + (N - j) + 1] = tbl[w[N]].next
  BY <1>1, <1>2, <1>7, <1>8
<1>10. w[i + (N - j) + 1] = e /\ i + (N - j) + 1 \in 1..N
  BY <1>7, <1>9
<1> QED
  BY <1>10

LEMMA MembersClosed ==
  ASSUME tbl \in [Buckets -> Records], NEW x \in Buckets
  PROVE  Closed(tbl, Members(x)) /\ (tbl[x].first # NoBucket => tbl[x].first \in Members(x))
<1>0. NumBuckets \in Nat /\ NumBuckets >= 1
  BY SizesAssumption
<1>1. /\ Walk(x)[1] = tbl[x].first
      /\ \A m \in 2..NumBuckets : Walk(x)[m] = IF Walk(x)[m - 1] = NoBucket THEN NoBucket
                                               ELSE tbl[Walk(x)[m - 1]].next
  BY WalkIs DEF IsWalk
<1>2. ASSUME NEW e \in Members(x), tbl[e].next # NoBucket
      PROVE  tbl[e].next \in Members(x)
  <2>1. PICK n \in 1..NumBuckets : Walk(x)[n] # NoBucket /\ e = Walk(x)[n]
    BY MembersAre
  <2>2. CASE n = NumBuckets
    <3>1. \E m \in 1..NumBuckets : Walk(x)[m] = tbl[e].next
      BY <1>2, <2>1, <2>2, WalkReturns
    <3> QED
      BY <3>1, <1>2, MembersAre
  <2>3. CASE n # NumBuckets
    <3>1. n + 1 \in 2..NumBuckets /\ n + 1 \in 1..NumBuckets /\ (n + 1) - 1 = n
      BY <1>0, <2>3
    <3>2. Walk(x)[n + 1] = tbl[e].next
      BY <1>1, <2>1, <3>1
    <3> QED
      BY <3>1, <3>2, <1>2, MembersAre
  <2> QED
    BY <2>2, <2>3
<1>3. ASSUME tbl[x].first # NoBucket PROVE tbl[x].first \in Members(x)
  <2>1. 1 \in 1..NumBuckets
    BY <1>0
  <2> QED
    BY <2>1, <1>1, <1>3, MembersAre
<1> QED
  BY <1>2, <1>3 DEF Closed

(* So a key is in the map if who follows the links from its home meets it.  *)
LEMMA MapMeets ==
  ASSUME tbl \in [Buckets -> Records]
  PROVE  \A k \in Keys : /\ AbsMap[k] \in {None, Present}
                         /\ AbsMap[k] = Present <=> Meets(tbl, tbl[Home[k]].first, k)
<1> SUFFICES ASSUME NEW k \in Keys
             PROVE  /\ AbsMap[k] \in {None, Present}
                    /\ AbsMap[k] = Present <=> Meets(tbl, tbl[Home[k]].first, k)
  OBVIOUS
<1> DEFINE x == Home[k]
           M == Members(x)
           h == tbl[x].first
<1>1. x \in Buckets
  BY KeysAssumption
<1>2. AbsMap[k] = IF \E e \in M : tbl[e].hash = k THEN Present ELSE None
  BY DEF AbsMap
<1>3. M \in SUBSET Buckets /\ Closed(tbl, M) /\ (h # NoBucket => h \in M)
  BY <1>1, MembersAre, MembersClosed
<1>4. \A e \in M : \E n \in 1..NumBuckets : Walk(x)[n] # NoBucket /\ e = Walk(x)[n]
  BY <1>1, MembersAre
<1>5. ASSUME NEW e \in M, tbl[e].hash = k PROVE Meets(tbl, h, k)
  <2>1. PICK n \in 1..NumBuckets : Walk(x)[n] # NoBucket /\ e = Walk(x)[n]
    BY <1>4
  <2>2. h # NoBucket
    <3> SUFFICES ASSUME h = NoBucket PROVE FALSE
      OBVIOUS
    <3>1. Walk(x)[1] = NoBucket /\ 1 \in 1..NumBuckets /\ n \in 1..NumBuckets
      BY <1>1, WalkIs, SizesAssumption DEF IsWalk
    <3>2. \A m \in 1..NumBuckets : Walk(x)[m] = NoBucket
      BY <3>1, <1>1, WalkStops
    <3> QED
      BY <3>2, <2>1
  <2>3. ASSUME NEW S \in SUBSET Buckets, h \in S, Closed(tbl, S) PROVE e \in S
    BY <2>1, <2>3, <1>1, OnWalk
  <2> QED
    BY <2>2, <2>3, <1>5 DEF Meets
<1>6. ASSUME Meets(tbl, h, k) PROVE \E e \in M : tbl[e].hash = k
  BY <1>3, <1>6 DEF Meets
<1> HIDE DEF M, h
<1>7. Present # None
  BY DEF Present, None
<1> QED
  BY <1>2, <1>5, <1>6, <1>7 DEF h

LEMMA MapMeetsNext ==
  (tbl \in [Buckets -> Records] =>
     \A k \in Keys : /\ AbsMap[k] \in {None, Present}
                     /\ AbsMap[k] = Present <=> Meets(tbl, tbl[Home[k]].first, k))'
<1>1. tbl \in [Buckets -> Records] =>
     \A k \in Keys : /\ AbsMap[k] \in {None, Present}
                     /\ AbsMap[k] = Present <=> Meets(tbl, tbl[Home[k]].first, k)
  BY MapMeets
<1> QED
  BY <1>1, PTL

-----------------------------------------------------------------------------
(* What a store leaves of it: who met k goes on to meet k, from where he    *)
(* stands, from the next bucket, and from a home; Z is who may not.         *)
Kept(t, u, k, Z) ==
  \A a \in Buckets :
    /\ a \notin Z /\ Meets(t, a, k) => Meets(u, a, k)
    /\ a \notin Z /\ Meets(t, t[a].next, k) => Meets(u, u[a].next, k)
    /\ Meets(t, t[a].first, k) => Meets(u, u[a].first, k)

(* No link changes, and no entry of k goes.                                 *)
LEMMA KeptEntries ==
  ASSUME NEW t \in [Buckets -> Records], NEW u \in [Buckets -> Records], NEW k,
         \A w \in Buckets : u[w].first = t[w].first /\ u[w].next = t[w].next,
         \A w \in Buckets : t[w].hash = k => u[w].hash = k
  PROVE  Kept(t, u, k, {})
<1>1. ASSUME NEW a, Meets(t, a, k) PROVE Meets(u, a, k)
  <2> SUFFICES ASSUME NEW S \in SUBSET Buckets, a \in S, Closed(u, S)
               PROVE  \E e \in S : u[e].hash = k
    BY <1>1 DEF Meets
  <2>1. Closed(t, S)
    BY DEF Closed
  <2>2. PICK e \in S : t[e].hash = k
    BY <2>1, <1>1 DEF Meets
  <2> QED
    BY <2>2
<1> QED
  BY <1>1 DEF Kept

(* A free bucket gets its next one.                                         *)
LEMMA KeptNext ==
  ASSUME NEW t \in [Buckets -> Records], NEW u \in [Buckets -> Records], NEW k,
         NEW y \in Buckets, t[y].next = NoBucket,
         \A w \in Buckets : u[w].first = t[w].first /\ u[w].hash = t[w].hash,
         \A w \in Buckets \ {y} : u[w].next = t[w].next
  PROVE  Kept(t, u, k, {})
<1>1. ASSUME NEW a, Meets(t, a, k) PROVE Meets(u, a, k)
  <2> SUFFICES ASSUME NEW S \in SUBSET Buckets, a \in S, Closed(u, S)
               PROVE  \E e \in S : u[e].hash = k
    BY <1>1 DEF Meets
  <2>1. Closed(t, S)
    BY DEF Closed
  <2>2. PICK e \in S : t[e].hash = k
    BY <2>1, <1>1 DEF Meets
  <2> QED
    BY <2>2
<1>2. ~ Meets(t, t[y].next, k)
  BY DEF Meets
<1>3. ASSUME NEW a \in Buckets
      PROVE  /\ Meets(t, a, k) => Meets(u, a, k)
             /\ Meets(t, t[a].next, k) => Meets(u, u[a].next, k)
             /\ Meets(t, t[a].first, k) => Meets(u, u[a].first, k)
  <2>1. CASE a = y
    BY <2>1, <1>1, <1>2
  <2>2. CASE a # y
    BY <2>2, <1>1
  <2> QED
    BY <2>1, <2>2
<1> QED
  BY <1>3 DEF Kept

(* The tables t and u differ in field f of b only.                          *)
Relinked(t, u, b, f) ==
  /\ \A w \in Buckets : u[w].hash = t[w].hash
  /\ \A w \in Buckets, g \in LinkFields : ~(w = b /\ g = f) => u[w][g] = t[w][g]

LEMMA KeptRelinked ==
  ASSUME NEW t \in [Buckets -> Records], NEW u \in [Buckets -> Records], NEW k,
         NEW b \in Buckets, NEW f \in LinkFields, Relinked(t, u, b, f),
         \A a : Meets(t, a, k) => Meets(u, a, k),
         Meets(t, t[b][f], k) => Meets(u, u[b][f], k)
  PROVE  Kept(t, u, k, {})
<1>1. /\ \A w \in Buckets : ~(w = b /\ "next" = f) => u[w].next = t[w].next
      /\ \A w \in Buckets : ~(w = b /\ "first" = f) => u[w].first = t[w].first
  BY DEF Relinked, LinkFields
<1> SUFFICES ASSUME NEW a \in Buckets
             PROVE  /\ Meets(t, a, k) => Meets(u, a, k)
                    /\ Meets(t, t[a].next, k) => Meets(u, u[a].next, k)
                    /\ Meets(t, t[a].first, k) => Meets(u, u[a].first, k)
  BY DEF Kept
<1>2. Meets(t, t[a].next, k) => Meets(u, u[a].next, k)
  <2>1. CASE a = b /\ f = "next"
    BY <2>1
  <2>2. CASE ~(a = b /\ f = "next")
    BY <2>2, <1>1
  <2> QED
    BY <2>1, <2>2
<1>3. Meets(t, t[a].first, k) => Meets(u, u[a].first, k)
  <2>1. CASE a = b /\ f = "first"
    BY <2>1
  <2>2. CASE ~(a = b /\ f = "first")
    BY <2>2, <1>1
  <2> QED
    BY <2>1, <2>2
<1> QED
  BY <1>2, <1>3

(* A link that led to what y leads to now leads to y.                       *)
LEMMA KeptLink ==
  ASSUME NEW t \in [Buckets -> Records], NEW u \in [Buckets -> Records], NEW k,
         NEW y \in Buckets, NEW b \in Buckets, NEW f \in LinkFields, ~(b = y /\ f = "next"),
         Relinked(t, u, b, f), t[b][f] = t[y].next, u[b][f] = y
  PROVE  Kept(t, u, k, {})
<1>0. /\ \A w \in Buckets : u[w].hash = t[w].hash
      /\ \A w \in Buckets : ~(w = b /\ "next" = f) => u[w].next = t[w].next
      /\ \A w \in Buckets : ~(w = b /\ "first" = f) => u[w].first = t[w].first
  BY DEF Relinked, LinkFields
<1>1. ASSUME NEW S \in SUBSET Buckets, Closed(u, S)
      PROVE  Closed(t, S)
  <2> SUFFICES ASSUME NEW w \in S, t[w].next # NoBucket PROVE t[w].next \in S
    BY DEF Closed
  <2>1. CASE w = b /\ f = "next"
    <3>1. u[w].next = y /\ y # NoBucket /\ t[w].next = t[y].next /\ u[y].next = t[y].next
      BY <2>1, <1>0 DEF Buckets, NoBucket
    <3>2. y \in S
      BY <3>1, <1>1 DEF Closed
    <3> QED
      BY <3>1, <3>2, <1>1 DEF Closed
  <2>2. CASE ~(w = b /\ f = "next")
    BY <2>2, <1>0, <1>1 DEF Closed
  <2> QED
    BY <2>1, <2>2
<1>2. ASSUME NEW a, Meets(t, a, k) PROVE Meets(u, a, k)
  BY <1>0, <1>1, <1>2 DEF Meets
<1>3. ASSUME Meets(t, t[b][f], k) PROVE Meets(u, u[b][f], k)
  <2>1. t[b][f] # NoBucket /\ u[y].next = t[b][f] /\ y # NoBucket
    BY <1>0, <1>3 DEF Meets, Buckets, NoBucket
  <2> SUFFICES ASSUME NEW S \in SUBSET Buckets, y \in S, Closed(u, S)
               PROVE  \E e \in S : u[e].hash = k
    BY <2>1 DEF Meets
  <2>2. t[b][f] \in S
    BY <2>1 DEF Closed
  <2> QED
    BY <2>2, <1>0, <1>1, <1>3 DEF Meets
<1> QED
  BY <1>2, <1>3, KeptRelinked

(* The link to y now leads to what y leads to, and y has no entry of k.     *)
LEMMA KeptBypass ==
  ASSUME NEW t \in [Buckets -> Records], NEW u \in [Buckets -> Records], NEW k,
         NEW y \in Buckets, NEW b \in Buckets, NEW f \in LinkFields, t[y].next # y,
         Relinked(t, u, b, f), t[b][f] = y, u[b][f] = t[y].next, t[y].hash # k
  PROVE  Kept(t, u, k, {})
<1>0. /\ \A w \in Buckets : u[w].hash = t[w].hash
      /\ \A w \in Buckets : ~(w = b /\ "next" = f) => u[w].next = t[w].next
      /\ \A w \in Buckets : ~(w = b /\ "first" = f) => u[w].first = t[w].first
      /\ ~(b = y /\ f = "next") /\ y # NoBucket
  BY DEF Relinked, LinkFields, Buckets, NoBucket
<1>1. ASSUME NEW S \in SUBSET Buckets, Closed(u, S), t[y].next # NoBucket => t[y].next \in S
      PROVE  Closed(t, S \cup {y})
  <2> SUFFICES ASSUME NEW w \in S \cup {y}, t[w].next # NoBucket PROVE t[w].next \in S \cup {y}
    BY DEF Closed
  <2>1. CASE w = b /\ f = "next"
    BY <2>1
  <2>2. CASE w = y
    BY <2>2, <1>1
  <2>3. CASE ~(w = b /\ f = "next") /\ w # y
    BY <2>3, <1>0, <1>1 DEF Closed
  <2> QED
    BY <2>1, <2>2, <2>3
<1>2. ASSUME NEW a, Meets(t, a, k) PROVE Meets(u, a, k)
  <2> SUFFICES ASSUME NEW S \in SUBSET Buckets, a \in S, Closed(u, S)
               PROVE  \E e \in S : u[e].hash = k
    BY <1>2 DEF Meets
  <2>1. CASE (b \in S /\ f = "next") \/ y \in S
    <3>1. t[y].next # NoBucket => t[y].next \in S
      BY <2>1, <1>0 DEF Closed
    <3>2. Closed(t, S \cup {y}) /\ S \cup {y} \in SUBSET Buckets /\ a \in S \cup {y}
      BY <3>1, <1>1
    <3>3. PICK e \in S \cup {y} : t[e].hash = k
      BY <3>2, <1>2 DEF Meets
    <3> QED
      BY <3>3, <1>0
  <2>2. CASE ~(b \in S /\ f = "next") /\ y \notin S
    <3>1. Closed(t, S)
      BY <2>2, <1>0 DEF Closed
    <3>2. PICK e \in S : t[e].hash = k
      BY <3>1, <1>2 DEF Meets
    <3> QED
      BY <3>2, <1>0
  <2> QED
    BY <2>1, <2>2
<1>3. ASSUME Meets(t, t[b][f], k) PROVE Meets(u, u[b][f], k)
  <2>1. u[b][f] # NoBucket
    <3> SUFFICES ASSUME t[y].next = NoBucket PROVE FALSE
      OBVIOUS
    <3>1. Closed(t, {y}) /\ {y} \in SUBSET Buckets
      BY DEF Closed
    <3> QED
      BY <3>1, <1>3 DEF Meets
  <2> SUFFICES ASSUME NEW S \in SUBSET Buckets, t[y].next \in S, Closed(u, S)
               PROVE  \E e \in S : u[e].hash = k
    BY <2>1 DEF Meets
  <2>2. Closed(t, S \cup {y}) /\ S \cup {y} \in SUBSET Buckets /\ y \in S \cup {y}
    BY <1>1
  <2>3. PICK e \in S \cup {y} : t[e].hash = k
    BY <2>2, <1>3 DEF Meets
  <2> QED
    BY <2>3, <1>0
<1> QED
  BY <1>2, <1>3, KeptRelinked

(* The link to z now leads to its copy in y.                                *)
LEMMA KeptCopy ==
  ASSUME NEW t \in [Buckets -> Records], NEW u \in [Buckets -> Records], NEW k,
         NEW y \in Buckets, NEW z \in Buckets, NEW b \in Buckets, NEW f \in LinkFields,
         ~(b = y /\ f = "next"), t[z].next # z,
         Relinked(t, u, b, f), t[b][f] = z, u[b][f] = y,
         t[y].next = t[z].next, t[y].hash = t[z].hash
  PROVE  Kept(t, u, k, {})
<1>0. /\ \A w \in Buckets : u[w].hash = t[w].hash
      /\ \A w \in Buckets : ~(w = b /\ "next" = f) => u[w].next = t[w].next
      /\ \A w \in Buckets : ~(w = b /\ "first" = f) => u[w].first = t[w].first
      /\ ~(b = z /\ f = "next") /\ y # NoBucket /\ u[y].next = t[z].next
  BY DEF Relinked, LinkFields, Buckets, NoBucket
<1>1. ASSUME NEW S \in SUBSET Buckets, Closed(u, S), y \in S
      PROVE  /\ Closed(t, S \cup {z}) /\ S \cup {z} \in SUBSET Buckets
             /\ (\E e \in S \cup {z} : t[e].hash = k) => \E e \in S : u[e].hash = k
  <2>1. ASSUME NEW w \in S \cup {z}, t[w].next # NoBucket PROVE t[w].next \in S \cup {z}
    <3>1. CASE w = b /\ f = "next"
      BY <3>1
    <3>2. CASE w = z
      BY <3>2, <2>1, <1>0, <1>1 DEF Closed
    <3>3. CASE ~(w = b /\ f = "next") /\ w # z
      BY <3>3, <2>1, <1>0, <1>1 DEF Closed
    <3> QED
      BY <3>1, <3>2, <3>3
  <2> QED
    BY <2>1, <1>0, <1>1 DEF Closed
<1>2. ASSUME NEW a, Meets(t, a, k) PROVE Meets(u, a, k)
  <2> SUFFICES ASSUME NEW S \in SUBSET Buckets, a \in S, Closed(u, S)
               PROVE  \E e \in S : u[e].hash = k
    BY <1>2 DEF Meets
  <2>1. CASE b \in S /\ f = "next"
    <3>1. y \in S
      BY <2>1, <1>0 DEF Closed
    <3>2. Closed(t, S \cup {z}) /\ S \cup {z} \in SUBSET Buckets /\ a \in S \cup {z}
      BY <3>1, <1>1
    <3>3. \E e \in S \cup {z} : t[e].hash = k
      BY <3>2, <1>2 DEF Meets
    <3> QED
      BY <3>1, <3>3, <1>1
  <2>2. CASE ~(b \in S /\ f = "next")
    <3>1. Closed(t, S)
      BY <2>2, <1>0 DEF Closed
    <3>2. PICK e \in S : t[e].hash = k
      BY <3>1, <1>2 DEF Meets
    <3> QED
      BY <3>2, <1>0
  <2> QED
    BY <2>1, <2>2
<1>3. ASSUME Meets(t, t[b][f], k) PROVE Meets(u, u[b][f], k)
  <2> SUFFICES ASSUME NEW S \in SUBSET Buckets, y \in S, Closed(u, S)
               PROVE  \E e \in S : u[e].hash = k
    BY <1>0 DEF Meets
  <2>1. Closed(t, S \cup {z}) /\ S \cup {z} \in SUBSET Buckets /\ z \in S \cup {z}
    BY <1>1
  <2>2. \E e \in S \cup {z} : t[e].hash = k
    BY <2>1, <1>3 DEF Meets
  <2> QED
    BY <2>2, <1>1
<1> QED
  BY <1>2, <1>3, KeptRelinked

(* A bucket changes that no link leads to.                                  *)
LEMMA KeptApart ==
  ASSUME NEW t \in [Buckets -> Records], NEW u \in [Buckets -> Records], NEW k,
         NEW z \in Buckets, Apart(t, z),
         \A w \in Buckets : u[w].first = t[w].first,
         \A w \in Buckets \ {z} : u[w].next = t[w].next /\ u[w].hash = t[w].hash
  PROVE  Kept(t, u, k, {z})
<1>0. \A w \in Buckets : t[w].next # z /\ t[w].first # z
  BY DEF Apart, LinkFields
<1>1. ASSUME NEW a, a # z, Meets(t, a, k) PROVE Meets(u, a, k)
  <2> SUFFICES ASSUME NEW S \in SUBSET Buckets, a \in S, Closed(u, S)
               PROVE  \E e \in S : u[e].hash = k
    BY <1>1 DEF Meets
  <2>1. Closed(t, S \ {z}) /\ S \ {z} \in SUBSET Buckets /\ a \in S \ {z}
    BY <1>0, <1>1 DEF Closed
  <2>2. PICK e \in S \ {z} : t[e].hash = k
    BY <2>1, <1>1 DEF Meets
  <2> QED
    BY <2>2
<1>2. ASSUME NEW a \in Buckets
      PROVE  /\ a # z /\ Meets(t, a, k) => Meets(u, a, k)
             /\ a # z /\ Meets(t, t[a].next, k) => Meets(u, u[a].next, k)
             /\ Meets(t, t[a].first, k) => Meets(u, u[a].first, k)
  BY <1>0, <1>1
<1> QED
  BY <1>2 DEF Kept

-----------------------------------------------------------------------------
(* The keys of the map are those with an entry, less the one that a put     *)
(* has not linked yet.                                                      *)
LEMMA PuttingIs ==
  ASSUME IndInv, \A p \in Threads : WriterOK(p), NEW k \in Keys, Putting(k)
  PROVE  AbsMap[k] = None
<1>1. PICK p \in Threads : pc[p] = "store" /\ call[p].op = "put" /\ Key(p) = k /\ stores[p] # << >>
  BY DEF Putting
<1>2. PutStage(p)
  BY <1>1 DEF WriterOK
<1>3. PICK y \in Buckets : Apart(tbl, y) /\ \A w \in Buckets \ {y} : tbl[w].hash # k
  BY <1>1, <1>2 DEF PutStage
<1>4. tbl \in [Buckets -> Records] /\ Home[k] \in Buckets
  BY KeysAssumption DEF IndInv, TypeOK
<1>5. /\ AbsMap[k] \in {None, Present}
      /\ AbsMap[k] = Present <=> Meets(tbl, tbl[Home[k]].first, k)
  BY <1>4, MapMeets
<1>6. ~ Meets(tbl, tbl[Home[k]].first, k)
  <2> SUFFICES ASSUME Meets(tbl, tbl[Home[k]].first, k) PROVE FALSE
    OBVIOUS
  <2> DEFINE S == Buckets \ {y}
  <2>1. tbl[Home[k]].first # y /\ \A w \in Buckets : tbl[w].next # y
    BY <1>3, <1>4 DEF Apart, LinkFields
  <2>2. tbl[Home[k]].first # NoBucket
    BY DEF Meets
  <2>3. tbl[Home[k]].first \in S
    BY <1>4, <2>1, <2>2 DEF Records, BucketOrNone
  <2>4. Closed(tbl, S)
    <3> SUFFICES ASSUME NEW w \in S, tbl[w].next # NoBucket PROVE tbl[w].next \in S
      BY DEF Closed
    <3>1. tbl[w].next \in BucketOrNone
      BY <1>4 DEF Records
    <3> QED
      BY <3>1, <2>1 DEF BucketOrNone
  <2>5. S \in SUBSET Buckets
    OBVIOUS
  <2>6. \E e \in S : tbl[e].hash = k
    BY <2>3, <2>4, <2>5 DEF Meets
  <2> QED
    BY <2>6, <1>3
<1> QED
  BY <1>5, <1>6

LEMMA HasEntry ==
  ASSUME IndInv, NEW k \in Keys, AbsMap[k] = Present
  PROVE  \E w \in Buckets : tbl[w].hash = k
<1>1. tbl \in [Buckets -> Records] /\ Home[k] \in Buckets
  BY KeysAssumption DEF IndInv, TypeOK
<1>2. Meets(tbl, tbl[Home[k]].first, k)
  BY <1>1, MapMeets
<1>3. tbl[Home[k]].first \in Buckets
  BY <1>1, <1>2 DEF Meets, Records, BucketOrNone
<1>4. Closed(tbl, Buckets)
  <2> SUFFICES ASSUME NEW w \in Buckets, tbl[w].next # NoBucket PROVE tbl[w].next \in Buckets
    BY DEF Closed
  <2>1. tbl[w].next \in BucketOrNone
    BY <1>1 DEF Records
  <2> QED
    BY <2>1 DEF BucketOrNone
<1> QED
  BY <1>2, <1>3, <1>4 DEF Meets

MapIsOfEntries ==
  \A k \in Keys : /\ AbsMap[k] \in {None, Present}
                  /\ AbsMap[k] = Present <=> (\E w \in Buckets : tbl[w].hash = k) /\ ~ Putting(k)

LEMMA MapIs ==
  ASSUME IndInv, AnswersInv
  PROVE  MapIsOfEntries
<1> SUFFICES ASSUME NEW k \in Keys
             PROVE  /\ AbsMap[k] \in {None, Present}
                    /\ AbsMap[k] = Present <=> (\E w \in Buckets : tbl[w].hash = k) /\ ~ Putting(k)
  BY DEF MapIsOfEntries
<1>1. tbl \in [Buckets -> Records] /\ MapOfEntries /\ \A p \in Threads : WriterOK(p)
  BY DEF IndInv, TypeOK, AnswersInv
<1>2. AbsMap[k] \in {None, Present}
  BY <1>1, MapMeets
<1>3. AbsMap[k] = Present => \E w \in Buckets : tbl[w].hash = k
  BY HasEntry
<1>4. Putting(k) => AbsMap[k] = None
  BY <1>1, PuttingIs
<1>5. (\E w \in Buckets : tbl[w].hash = k) /\ ~ Putting(k) => AbsMap[k] = Present
  BY <1>1 DEF MapOfEntries
<1>6. Present # None
  BY DEF Present, None
<1> QED
  BY <1>2, <1>3, <1>4, <1>5, <1>6

LEMMA MapIsNext == (IndInv /\ AnswersInv => MapIsOfEntries)'
<1>1. IndInv /\ AnswersInv => MapIsOfEntries
  BY MapIs
<1> QED
  BY <1>1, PTL

(* When all is stored every entry is in the map.                            *)
AllLinked == \A k \in Keys, w \in Buckets : tbl[w].hash = k => AbsMap[k] = Present

LEMMA SoundLinked ==
  ASSUME tbl \in [Buckets -> Records], SoundTable(tbl)
  PROVE  AllLinked
<1>1. ListsSound
  BY SoundLists DEF SoundTable
<1> SUFFICES ASSUME NEW k \in Keys, NEW w \in Buckets, tbl[w].hash = k PROVE AbsMap[k] = Present
  BY DEF AllLinked
<1>2. PICK pos \in Positions : Sound(tbl, pos)
  BY DEF SoundTable
<1>3. k # None /\ Home[k] \in Buckets
  BY KeysAssumption DEF None
<1>4. pos[w] \in 1..Len(List(Home[k])) /\ List(Home[k])[pos[w]] = w
  BY <1>2, <1>3, ListEntries
<1>5. w \in Members(Home[k])
  BY <1>4 DEF Members
<1> QED
  BY <1>5 DEF AbsMap

LEMMA StoredLinked ==
  ASSUME IndInv, \E p \in Threads : pc[p] \in {"store", "move"} /\ stores[p] = << >>
  PROVE  AllLinked
<1>1. SoundTable(tbl) /\ tbl \in [Buckets -> Records]
  BY Stored DEF IndInv, TypeOK
<1> QED
  BY <1>1, SoundLinked

LEMMA StoredLinkedNext ==
  (IndInv /\ (\E p \in Threads : pc[p] \in {"store", "move"} /\ stores[p] = << >>) => AllLinked)'
<1>1. IndInv /\ (\E p \in Threads : pc[p] \in {"store", "move"} /\ stores[p] = << >>) => AllLinked
  BY StoredLinked
<1> QED
  BY <1>1, PTL

-----------------------------------------------------------------------------
(* The store that is next.                                                  *)
LEMMA StoreIs ==
  ASSUME IndInv, UNCHANGED aligned, NEW p \in Threads, Store(p),
         NEW b \in Buckets, NEW f \in Fields, NEW v, Head(stores[p]) = Set(b, f, v)
  PROVE  /\ tbl \in [Buckets -> Records] /\ tbl' \in [Buckets -> Records]
         /\ \A w \in Buckets, g \in Fields : tbl'[w][g] = IF w = b /\ g = f THEN v ELSE tbl[w][g]
         /\ stale' = stale /\ stores'[p] = Tail(stores[p])
         /\ ret'[p] = IF Effective(p) THEN Present ELSE ret[p]
<1>1. tbl \in [Buckets -> Records] /\ stores \in [Threads -> Seq(Stores)] /\ ret \in [Threads -> Vals \cup {None}]
  BY DEF IndInv, TypeOK
<1>2. IndInv'
  BY StoreStep
<1>3. Set(b, f, v).bucket = b /\ Set(b, f, v).field = f /\ Set(b, f, v).value = v /\ f # "stamp"
  BY DEF Set, Fields
<1>4. tbl' = [tbl EXCEPT ![b][f] = v] /\ stale' = stale
  BY <1>3 DEF Store
<1>5. \A w \in Buckets, g \in Fields : tbl'[w][g] = IF w = b /\ g = f THEN v ELSE tbl[w][g]
  BY <1>1, <1>4 DEF Records, Fields
<1> QED
  BY <1>1, <1>2, <1>4, <1>5 DEF Store, IndInv, TypeOK

LEMMA StampIs ==
  ASSUME IndInv, NEW p \in Threads, Store(p), Head(stores[p]) = StampStore
  PROVE  /\ tbl' = tbl /\ stale' = [q \in Threads |-> pc[q] # "idle"] /\ stores'[p] = Tail(stores[p])
         /\ ret'[p] = IF Effective(p) THEN Present ELSE ret[p]
<1>1. stores \in [Threads -> Seq(Stores)] /\ ret \in [Threads -> Vals \cup {None}]
  BY DEF IndInv, TypeOK
<1>2. StampStore.field = "stamp"
  BY DEF StampStore, Set
<1> QED
  BY <1>1, <1>2 DEF Store

(* The store that changes the map.                                          *)
Binds(p) == Effective(p) /\ call[p].op = "put"
Unbinds(p) == Effective(p) /\ call[p].op = "remove"

(* What a store does to the table, for those who read it and for the map:   *)
(* the others still meet their key, but for those who go on from a bucket   *)
(* in Z, who start over.                                                    *)
StoreKeeps(p) ==
  /\ \E Z \in SUBSET Buckets :
       /\ \A z \in Z : Left(z)
       /\ \A k \in Keys : ~ (Unbinds(p) /\ k = Key(p)) => Kept(tbl, tbl', k, Z)
  /\ Unbinds(p) => /\ \E w \in Buckets : tbl[w].hash = Key(p)
                   /\ \A w \in Buckets : tbl'[w].hash # Key(p)
  /\ Binds(p) => \E w \in Buckets : tbl'[w].hash = Key(p)
  /\ \A k \in Keys, w \in Buckets :
       tbl'[w].hash = k => (\E v \in Buckets : tbl[v].hash = k) \/ Putting(k)'
  /\ KeysMatch'

LEMMA KeepsAll ==
  ASSUME NEW p \in Threads, ~ Unbinds(p), Binds(p) => \E w \in Buckets : tbl'[w].hash = Key(p),
         \A k \in Keys : Kept(tbl, tbl', k, {}), KeysMatch',
         \A k \in Keys, w \in Buckets :
           tbl'[w].hash = k => (\E v \in Buckets : tbl[v].hash = k) \/ Putting(k)'
  PROVE  StoreKeeps(p)
<1>1. {} \in SUBSET Buckets /\ \A z \in {} : Left(z)
  OBVIOUS
<1> QED
  BY <1>1 DEF StoreKeeps

LEMMA PutStoreKeeps ==
  ASSUME IndInv, UNCHANGED aligned, NEW p \in Threads, Store(p), KeysMatch, WriterOK(p),
         pc[p] = "store", call[p].op = "put"
  PROVE  StoreKeeps(p) /\ WriterOK(p)'
<1> DEFINE s == stores[p]
<1> PICK k \in Keys : k = Key(p)
  BY KeyIs DEF IndInv
<1>0. s # << >> /\ UNCHANGED <<lock, pc, call, at>> /\ k # None /\ tbl \in [Buckets -> Records]
  BY KeysAssumption DEF Store, IndInv, TypeOK, None
<1>1. ret[p] = None /\ PutStage(p)
  BY <1>0 DEF WriterOK
<1>2. PICK y \in Buckets, b \in Buckets, f \in LinkFields :
        /\ Apart(tbl, y) /\ ~(b = y /\ f = "next")
        /\ \A w \in Buckets \ {y} : tbl[w].hash # k
        /\ \/ /\ s = <<Set(y, "key", k), Set(y, "hash", k), Set(y, "next", tbl[b][f]), Set(b, f, y)>>
              /\ tbl[y].hash = None /\ tbl[y].next = NoBucket
           \/ /\ s = <<Set(y, "hash", k), Set(y, "next", tbl[b][f]), Set(b, f, y)>>
              /\ tbl[y].hash = None /\ tbl[y].key = k /\ tbl[y].next = NoBucket
           \/ s = <<Set(y, "next", tbl[b][f]), Set(b, f, y)>> /\ tbl[y].hash = k /\ tbl[y].next = NoBucket
           \/ s = <<Set(b, f, y)>> /\ tbl[y].hash = k /\ tbl[y].next = tbl[b][f]
  BY <1>1 DEF PutStage
<1> DEFINE n == tbl[b][f]
<1>3. /\ LinkFields \subseteq Fields /\ "key" \in Fields /\ "hash" \in Fields /\ "next" \in Fields
      /\ f # "key" /\ f # "hash" /\ n # y /\ f \in Fields
  BY <1>2 DEF LinkFields, Fields, Apart
<1>4. \A w \in Buckets : tbl[w].first # y /\ tbl[w].next # y
  BY <1>2 DEF Apart, LinkFields
<1>5. Key(p)' = k /\ pc'[p] = "store" /\ call'[p].op = "put"
  BY <1>0 DEF Key
<1>6. ASSUME stores'[p] # << >> PROVE Putting(k)'
  BY <1>5, <1>6 DEF Putting
<1>7. Effective(p) <=> Len(s) = 1
  BY DEF Effective
<1>8. CASE /\ s = <<Set(y, "key", k), Set(y, "hash", k), Set(y, "next", n), Set(b, f, y)>>
           /\ tbl[y].hash = None /\ tbl[y].next = NoBucket
  <2>1. /\ Head(s) = Set(y, "key", k) /\ Tail(s) = <<Set(y, "hash", k), Set(y, "next", n), Set(b, f, y)>>
        /\ Len(s) = 4
    BY <1>8
  <2>20. ~ Unbinds(p) /\ ~ Binds(p)
    BY <2>1, <1>7 DEF Unbinds, Binds
  <2>2. /\ tbl' \in [Buckets -> Records]
        /\ \A w \in Buckets, g \in Fields : tbl'[w][g] = IF w = y /\ g = "key" THEN k ELSE tbl[w][g]
        /\ stores'[p] = Tail(s) /\ ret'[p] = None
    BY <2>1, <1>1, <1>3, <1>7, StoreIs
  <2>3. \A w \in Buckets : /\ tbl'[w].first = tbl[w].first /\ tbl'[w].next = tbl[w].next
                           /\ tbl'[w].hash = tbl[w].hash
                           /\ tbl'[w].key = IF w = y THEN k ELSE tbl[w].key
    BY <2>2, <1>3 DEF Fields
  <2>4. Apart(tbl', y) /\ tbl'[b][f] = n
    BY <2>2, <2>3, <1>3, <1>4 DEF Apart, LinkFields
  <2>5. PutStage(p)'
    BY <2>1, <2>2, <2>3, <2>4, <1>2, <1>5, <1>8 DEF PutStage
  <2>6. WriterOK(p)'
    BY <2>2, <2>5, <1>5 DEF WriterOK
  <2>7. KeysMatch'
    BY <2>3, <1>8 DEF KeysMatch
  <2>8. \A j \in Keys : Kept(tbl, tbl', j, {})
    BY <2>2, <2>3, <1>0, KeptEntries
  <2> QED
    BY <2>3, <2>6, <2>7, <2>8, <2>20, KeepsAll
<1>9. CASE /\ s = <<Set(y, "hash", k), Set(y, "next", n), Set(b, f, y)>>
           /\ tbl[y].hash = None /\ tbl[y].key = k /\ tbl[y].next = NoBucket
  <2>1. Head(s) = Set(y, "hash", k) /\ Tail(s) = <<Set(y, "next", n), Set(b, f, y)>> /\ Len(s) = 3
    BY <1>9
  <2>20. ~ Unbinds(p) /\ ~ Binds(p)
    BY <2>1, <1>7 DEF Unbinds, Binds
  <2>2. /\ tbl' \in [Buckets -> Records]
        /\ \A w \in Buckets, g \in Fields : tbl'[w][g] = IF w = y /\ g = "hash" THEN k ELSE tbl[w][g]
        /\ stores'[p] = Tail(s) /\ ret'[p] = None
    BY <2>1, <1>1, <1>3, <1>7, StoreIs
  <2>3. \A w \in Buckets : /\ tbl'[w].first = tbl[w].first /\ tbl'[w].next = tbl[w].next
                           /\ tbl'[w].hash = IF w = y THEN k ELSE tbl[w].hash
                           /\ tbl'[w].key = tbl[w].key
    BY <2>2, <1>3 DEF Fields
  <2>4. Apart(tbl', y) /\ tbl'[b][f] = n
    BY <2>2, <2>3, <1>3, <1>4 DEF Apart, LinkFields
  <2>5. PutStage(p)'
    BY <2>1, <2>2, <2>3, <2>4, <1>2, <1>5, <1>9 DEF PutStage
  <2>6. WriterOK(p)'
    BY <2>2, <2>5, <1>5 DEF WriterOK
  <2>7. KeysMatch'
    BY <2>3, <1>9 DEF KeysMatch
  <2>8. \A j \in Keys : Kept(tbl, tbl', j, {})
    <3> SUFFICES ASSUME NEW j \in Keys PROVE Kept(tbl, tbl', j, {})
      OBVIOUS
    <3>1. \A w \in Buckets : tbl[w].hash = j => tbl'[w].hash = j
      BY <2>3, <1>9, KeysAssumption DEF None
    <3> QED
      BY <3>1, <2>2, <2>3, <1>0, KeptEntries
  <2>9. Putting(k)'
    BY <2>1, <2>2, <1>0, <1>6
  <2>10. \A j \in Keys, w \in Buckets :
           tbl'[w].hash = j => (\E v \in Buckets : tbl[v].hash = j) \/ Putting(j)'
    BY <2>3, <2>9
  <2> QED
    BY <2>6, <2>7, <2>8, <2>10, <2>20, KeepsAll
<1>10. CASE s = <<Set(y, "next", n), Set(b, f, y)>> /\ tbl[y].hash = k /\ tbl[y].next = NoBucket
  <2>1. Head(s) = Set(y, "next", n) /\ Tail(s) = <<Set(b, f, y)>> /\ Len(s) = 2
    BY <1>10
  <2>20. ~ Unbinds(p) /\ ~ Binds(p)
    BY <2>1, <1>7 DEF Unbinds, Binds
  <2>2. /\ tbl' \in [Buckets -> Records]
        /\ \A w \in Buckets, g \in Fields : tbl'[w][g] = IF w = y /\ g = "next" THEN n ELSE tbl[w][g]
        /\ stores'[p] = Tail(s) /\ ret'[p] = None
    BY <2>1, <1>1, <1>3, <1>7, StoreIs
  <2>3. \A w \in Buckets : /\ tbl'[w].first = tbl[w].first
                           /\ tbl'[w].next = IF w = y THEN n ELSE tbl[w].next
                           /\ tbl'[w].hash = tbl[w].hash
                           /\ tbl'[w].key = tbl[w].key
    BY <2>2, <1>3 DEF Fields
  <2>4. Apart(tbl', y) /\ tbl'[b][f] = n
    BY <2>2, <2>3, <1>2, <1>3, <1>4 DEF Apart, LinkFields
  <2>5. PutStage(p)'
    BY <2>1, <2>2, <2>3, <2>4, <1>2, <1>5, <1>10 DEF PutStage
  <2>6. WriterOK(p)'
    BY <2>2, <2>5, <1>5 DEF WriterOK
  <2>7. KeysMatch'
    BY <2>3 DEF KeysMatch
  <2>8. \A j \in Keys : Kept(tbl, tbl', j, {})
    BY <2>2, <2>3, <1>0, <1>10, KeptNext
  <2> QED
    BY <2>3, <2>6, <2>7, <2>8, <2>20, KeepsAll
<1>11. CASE s = <<Set(b, f, y)>> /\ tbl[y].hash = k /\ tbl[y].next = n
  <2>1. Head(s) = Set(b, f, y) /\ Tail(s) = << >> /\ Len(s) = 1
    BY <1>11
  <2>20. ~ Unbinds(p)
    BY DEF Unbinds
  <2>2. /\ tbl' \in [Buckets -> Records]
        /\ \A w \in Buckets, g \in Fields : tbl'[w][g] = IF w = b /\ g = f THEN y ELSE tbl[w][g]
        /\ stores'[p] = Tail(s) /\ ret'[p] = Present
    BY <2>1, <1>1, <1>3, <1>7, StoreIs
  <2>3. \A w \in Buckets : tbl'[w].hash = tbl[w].hash /\ tbl'[w].key = tbl[w].key
    BY <2>2, <1>3 DEF Fields
  <2>4. WriterOK(p)'
    BY <2>1, <2>2, <1>5 DEF WriterOK
  <2>5. KeysMatch'
    BY <2>3 DEF KeysMatch
  <2>6. Relinked(tbl, tbl', b, f) /\ tbl'[b][f] = y
    BY <2>2, <2>3, <1>3 DEF Relinked
  <2>7. \A j \in Keys : Kept(tbl, tbl', j, {})
    BY <2>2, <2>6, <1>0, <1>2, <1>11, KeptLink
  <2>21. \E w \in Buckets : tbl'[w].hash = Key(p)
    BY <2>3, <1>11
  <2> QED
    BY <2>3, <2>4, <2>5, <2>7, <2>20, <2>21, KeepsAll
<1> QED
  BY <1>2, <1>8, <1>9, <1>10, <1>11

LEMMA RemoveStoreKeeps ==
  ASSUME IndInv, UNCHANGED aligned, NEW p \in Threads, Store(p), KeysMatch, WriterOK(p),
         pc[p] = "store", call[p].op = "remove"
  PROVE  StoreKeeps(p) /\ WriterOK(p)'
<1> DEFINE s == stores[p]
<1> PICK k \in Keys : k = Key(p)
  BY KeyIs DEF IndInv
<1>0. s # << >> /\ UNCHANGED <<lock, pc, call, at>> /\ k # None /\ tbl \in [Buckets -> Records]
  BY KeysAssumption DEF Store, IndInv, TypeOK, None
<1>1. RemoveStage(p)
  BY <1>0 DEF WriterOK
<1>2. PICK y \in Buckets, b \in Buckets, f \in LinkFields :
        /\ tbl[y].next # y
        /\ \/ /\ s = <<Set(y, "hash", None), Set(y, "key", None), Set(b, f, tbl[y].next), StampStore,
                       Set(y, "next", NoBucket)>>
              /\ ret[p] = None
              /\ Links(tbl, b, f, y) /\ tbl[y].hash = k
              /\ \A w \in Buckets \ {y} : tbl[w].hash # k
           \/ /\ s = <<Set(y, "key", None), Set(b, f, tbl[y].next), StampStore, Set(y, "next", NoBucket)>>
              /\ ret[p] = Present
              /\ Links(tbl, b, f, y) /\ tbl[y].hash = None
           \/ /\ s = <<Set(b, f, tbl[y].next), StampStore, Set(y, "next", NoBucket)>>
              /\ ret[p] = Present
              /\ Links(tbl, b, f, y) /\ tbl[y].hash = None
           \/ /\ s = <<StampStore, Set(y, "next", NoBucket)>>
              /\ ret[p] = Present
              /\ Apart(tbl, y)
           \/ /\ s = <<Set(y, "next", NoBucket)>>
              /\ ret[p] = Present
              /\ Apart(tbl, y) /\ Left(y)
  BY <1>1 DEF RemoveStage
<1> DEFINE n == tbl[y].next
<1>3. /\ LinkFields \subseteq Fields /\ "key" \in Fields /\ "hash" \in Fields /\ "next" \in Fields
      /\ f # "key" /\ f # "hash" /\ f \in Fields /\ y # NoBucket
  BY <1>2 DEF LinkFields, Fields, Buckets, NoBucket
<1>5. Key(p)' = k /\ pc'[p] = "store" /\ call'[p].op = "remove"
  BY <1>0 DEF Key
<1>7. Effective(p) <=> Head(s).field = "hash"
  BY DEF Effective
<1>8. CASE /\ s = <<Set(y, "hash", None), Set(y, "key", None), Set(b, f, n), StampStore,
                    Set(y, "next", NoBucket)>>
           /\ ret[p] = None /\ Links(tbl, b, f, y) /\ tbl[y].hash = k
           /\ \A w \in Buckets \ {y} : tbl[w].hash # k
  <2>1. /\ Head(s) = Set(y, "hash", None)
        /\ Tail(s) = <<Set(y, "key", None), Set(b, f, n), StampStore, Set(y, "next", NoBucket)>>
    BY <1>8
  <2>0. Effective(p)
    BY <2>1, <1>7 DEF Set
  <2>2. /\ tbl' \in [Buckets -> Records]
        /\ \A w \in Buckets, g \in Fields : tbl'[w][g] = IF w = y /\ g = "hash" THEN None ELSE tbl[w][g]
        /\ stores'[p] = Tail(s) /\ ret'[p] = Present
    BY <2>0, <2>1, <1>3, StoreIs
  <2>3. \A w \in Buckets : /\ tbl'[w].first = tbl[w].first /\ tbl'[w].next = tbl[w].next
                           /\ tbl'[w].hash = IF w = y THEN None ELSE tbl[w].hash
                           /\ tbl'[w].key = tbl[w].key
    BY <2>2, <1>3 DEF Fields
  <2>4. Links(tbl', b, f, y)
    BY <2>2, <1>3, <1>8 DEF Links, LinkFields
  <2>5. RemoveStage(p)'
    BY <2>1, <2>2, <2>3, <2>4, <1>2, <1>5 DEF RemoveStage
  <2>6. WriterOK(p)'
    BY <2>5, <1>5 DEF WriterOK
  <2>7. KeysMatch'
    BY <2>3 DEF KeysMatch
  <2>8. \A j \in Keys \ {k} : Kept(tbl, tbl', j, {})
    <3> SUFFICES ASSUME NEW j \in Keys \ {k} PROVE Kept(tbl, tbl', j, {})
      OBVIOUS
    <3>1. \A w \in Buckets : tbl[w].hash = j => tbl'[w].hash = j
      BY <2>3, <1>8
    <3> QED
      BY <3>1, <2>2, <2>3, <1>0, KeptEntries
  <2>9. \A w \in Buckets : tbl'[w].hash # k
    BY <2>3, <1>0, <1>8
  <2>10. \A j \in Keys, w \in Buckets :
           tbl'[w].hash = j => (\E v \in Buckets : tbl[v].hash = j) \/ Putting(j)'
    <3> SUFFICES ASSUME NEW j \in Keys, NEW w \in Buckets, tbl'[w].hash = j
                 PROVE  \E v \in Buckets : tbl[v].hash = j
      OBVIOUS
    <3>1. j # None
      BY KeysAssumption DEF None
    <3> QED
      BY <3>1, <2>3
  <2>11. /\ {} \in SUBSET Buckets /\ \A z \in {} : Left(z)
         /\ Unbinds(p) /\ ~ Binds(p) /\ \E w \in Buckets : tbl[w].hash = Key(p)
    BY <2>0, <1>8 DEF Unbinds, Binds
  <2> QED
    BY <2>6, <2>7, <2>8, <2>9, <2>10, <2>11 DEF StoreKeeps
<1>9. CASE /\ s = <<Set(y, "key", None), Set(b, f, n), StampStore, Set(y, "next", NoBucket)>>
           /\ ret[p] = Present /\ Links(tbl, b, f, y) /\ tbl[y].hash = None
  <2>1. Head(s) = Set(y, "key", None) /\ Tail(s) = <<Set(b, f, n), StampStore, Set(y, "next", NoBucket)>>
    BY <1>9
  <2>0. ret[p] = Present
    BY <1>9
  <2>20. ~ Unbinds(p) /\ ~ Binds(p)
    BY <2>1, <1>3, <1>7 DEF Unbinds, Binds, Set
  <2>2. /\ tbl' \in [Buckets -> Records]
        /\ \A w \in Buckets, g \in Fields : tbl'[w][g] = IF w = y /\ g = "key" THEN None ELSE tbl[w][g]
        /\ stores'[p] = Tail(s) /\ ret'[p] = Present
    BY <2>0, <2>1, <1>3, StoreIs
  <2>3. \A w \in Buckets : /\ tbl'[w].first = tbl[w].first /\ tbl'[w].next = tbl[w].next
                           /\ tbl'[w].hash = tbl[w].hash
                           /\ tbl'[w].key = IF w = y THEN None ELSE tbl[w].key
    BY <2>2, <1>3 DEF Fields
  <2>4. Links(tbl', b, f, y)
    BY <2>2, <1>3, <1>9 DEF Links, LinkFields
  <2>5. RemoveStage(p)'
    BY <2>1, <2>2, <2>3, <2>4, <1>2, <1>5, <1>9 DEF RemoveStage
  <2>6. WriterOK(p)'
    BY <2>5, <1>5 DEF WriterOK
  <2>7. KeysMatch'
    BY <2>3, <1>9 DEF KeysMatch
  <2>8. \A j \in Keys : Kept(tbl, tbl', j, {})
    BY <2>2, <2>3, <1>0, KeptEntries
  <2> QED
    BY <2>3, <2>6, <2>7, <2>8, <2>20, KeepsAll
<1>10. CASE /\ s = <<Set(b, f, n), StampStore, Set(y, "next", NoBucket)>>
            /\ ret[p] = Present /\ Links(tbl, b, f, y) /\ tbl[y].hash = None
  <2>1. Head(s) = Set(b, f, n) /\ Tail(s) = <<StampStore, Set(y, "next", NoBucket)>>
    BY <1>10
  <2>0. ret[p] = Present
    BY <1>10
  <2>20. ~ Unbinds(p) /\ ~ Binds(p)
    BY <2>1, <1>3, <1>7 DEF Unbinds, Binds, Set
  <2>2. /\ tbl' \in [Buckets -> Records]
        /\ \A w \in Buckets, g \in Fields : tbl'[w][g] = IF w = b /\ g = f THEN n ELSE tbl[w][g]
        /\ stores'[p] = Tail(s) /\ ret'[p] = Present
    BY <2>0, <2>1, <1>3, StoreIs
  <2>3. \A w \in Buckets : tbl'[w].hash = tbl[w].hash /\ tbl'[w].key = tbl[w].key
    BY <2>2, <1>3 DEF Fields
  <2>4. Apart(tbl', y)
    BY <2>2, <1>2, <1>3, <1>10 DEF Links, Apart, LinkFields
  <2>5. tbl'[y].next = n
    <3>1. ~(b = y /\ f = "next")
      BY <1>2, <1>10 DEF Links
    <3> QED
      BY <3>1, <2>2, <1>3
  <2>6. RemoveStage(p)'
    BY <2>1, <2>2, <2>4, <2>5, <1>2, <1>5 DEF RemoveStage
  <2>7. WriterOK(p)'
    BY <2>6, <1>5 DEF WriterOK
  <2>8. KeysMatch'
    BY <2>3 DEF KeysMatch
  <2>9. Relinked(tbl, tbl', b, f) /\ tbl'[b][f] = n /\ tbl[b][f] = y
    BY <2>2, <2>3, <1>3, <1>10 DEF Relinked, Links
  <2>10. \A j \in Keys : tbl[y].hash # j
    BY <1>10, KeysAssumption DEF None
  <2>11. \A j \in Keys : Kept(tbl, tbl', j, {})
    BY <2>2, <2>9, <2>10, <1>0, <1>2, KeptBypass
  <2> QED
    BY <2>3, <2>7, <2>8, <2>11, <2>20, KeepsAll
<1>11. CASE s = <<StampStore, Set(y, "next", NoBucket)>> /\ ret[p] = Present /\ Apart(tbl, y)
  <2>1. Head(s) = StampStore /\ Tail(s) = <<Set(y, "next", NoBucket)>>
    BY <1>11
  <2>0. ret[p] = Present
    BY <1>11
  <2>20. ~ Unbinds(p) /\ ~ Binds(p)
    BY <2>1, <1>3, <1>7 DEF Unbinds, Binds, StampStore, Set
  <2>2. /\ tbl' = tbl /\ stale' = [q \in Threads |-> pc[q] # "idle"]
        /\ stores'[p] = Tail(s) /\ ret'[p] = Present
    BY <2>0, <2>1, StampIs
  <2>3. Left(y)'
    BY <2>2, <1>0 DEF Left
  <2>4. Apart(tbl', y)
    BY <2>2, <1>11
  <2>5. RemoveStage(p)'
    BY <2>1, <2>2, <2>3, <2>4, <1>2, <1>5 DEF RemoveStage
  <2>6. WriterOK(p)'
    BY <2>5, <1>5 DEF WriterOK
  <2>7. KeysMatch'
    BY <2>2 DEF KeysMatch
  <2>8. \A j \in Keys : Kept(tbl, tbl', j, {})
    BY <2>2, <1>0, KeptEntries
  <2> QED
    BY <2>2, <2>6, <2>7, <2>8, <2>20, KeepsAll
<1>12. CASE s = <<Set(y, "next", NoBucket)>> /\ ret[p] = Present /\ Apart(tbl, y) /\ Left(y)
  <2>1. Head(s) = Set(y, "next", NoBucket) /\ Tail(s) = << >>
    BY <1>12
  <2>0. ret[p] = Present
    BY <1>12
  <2>20. ~ Unbinds(p) /\ ~ Binds(p)
    BY <2>1, <1>3, <1>7 DEF Unbinds, Binds, Set
  <2>2. /\ tbl' \in [Buckets -> Records]
        /\ \A w \in Buckets, g \in Fields : tbl'[w][g] = IF w = y /\ g = "next" THEN NoBucket ELSE tbl[w][g]
        /\ stores'[p] = Tail(s) /\ ret'[p] = Present
    BY <2>0, <2>1, <1>3, StoreIs
  <2>3. \A w \in Buckets : /\ tbl'[w].first = tbl[w].first /\ tbl'[w].hash = tbl[w].hash
                           /\ tbl'[w].next = IF w = y THEN NoBucket ELSE tbl[w].next
                           /\ tbl'[w].key = tbl[w].key
    BY <2>2, <1>3 DEF Fields
  <2>4. WriterOK(p)'
    BY <2>1, <2>2, <1>5 DEF WriterOK
  <2>5. KeysMatch'
    BY <2>3 DEF KeysMatch
  <2>6. \A j \in Keys : Kept(tbl, tbl', j, {y})
    BY <2>2, <2>3, <1>0, <1>12, KeptApart
  <2>7. {y} \in SUBSET Buckets /\ \A z \in {y} : Left(z)
    BY <1>12
  <2>8. \A j \in Keys, w \in Buckets :
          tbl'[w].hash = j => (\E v \in Buckets : tbl[v].hash = j) \/ Putting(j)'
    BY <2>3
  <2> QED
    BY <2>4, <2>5, <2>6, <2>7, <2>8, <2>20 DEF StoreKeeps
<1> QED
  BY <1>2, <1>8, <1>9, <1>10, <1>11, <1>12

LEMMA MoveStoreKeeps ==
  ASSUME IndInv, UNCHANGED aligned, NEW p \in Threads, Store(p), KeysMatch, WriterOK(p),
         pc[p] = "move"
  PROVE  StoreKeeps(p) /\ WriterOK(p)'
<1> DEFINE s == stores[p]
<1>0. s # << >> /\ UNCHANGED <<lock, pc, call, at>> /\ tbl \in [Buckets -> Records] /\ ret[p] = Present
  BY DEF Store, IndInv, TypeOK, WriterOK
<1>1. MoveStage(p)
  BY <1>0 DEF WriterOK
<1>2. PICK y \in Buckets, z \in Buckets, b \in Buckets, f \in LinkFields, k \in Keys :
        /\ y # z /\ tbl[z].next \notin {y, z}
        /\ \/ /\ Apart(tbl, y) /\ Links(tbl, b, f, z) /\ tbl[z].hash = k /\ ~(b = y /\ f = "next")
              /\ \/ /\ s = <<Set(y, "key", k), Set(y, "hash", k), Set(y, "next", tbl[z].next), Set(b, f, y),
                             StampStore, Set(z, "hash", None), Set(z, "key", None), Set(z, "next", NoBucket)>>
                    /\ tbl[y].hash = None /\ tbl[y].next = NoBucket
                 \/ /\ s = <<Set(y, "hash", k), Set(y, "next", tbl[z].next), Set(b, f, y), StampStore,
                             Set(z, "hash", None), Set(z, "key", None), Set(z, "next", NoBucket)>>
                    /\ tbl[y].hash = None /\ tbl[y].key = k /\ tbl[y].next = NoBucket
                 \/ /\ s = <<Set(y, "next", tbl[z].next), Set(b, f, y), StampStore,
                             Set(z, "hash", None), Set(z, "key", None), Set(z, "next", NoBucket)>>
                    /\ tbl[y].hash = k /\ tbl[y].next = NoBucket
                 \/ /\ s = <<Set(b, f, y), StampStore,
                             Set(z, "hash", None), Set(z, "key", None), Set(z, "next", NoBucket)>>
                    /\ tbl[y].hash = k /\ tbl[y].next = tbl[z].next
           \/ /\ Apart(tbl, z)
              /\ s = <<StampStore, Set(z, "hash", None), Set(z, "key", None), Set(z, "next", NoBucket)>>
           \/ /\ Apart(tbl, z) /\ Left(z)
              /\ \/ s = <<Set(z, "hash", None), Set(z, "key", None), Set(z, "next", NoBucket)>>
                 \/ s = <<Set(z, "key", None), Set(z, "next", NoBucket)>> /\ tbl[z].hash = None
                 \/ s = <<Set(z, "next", NoBucket)>>
  BY <1>1 DEF MoveStage
<1> DEFINE n == tbl[z].next
<1>3. /\ LinkFields \subseteq Fields /\ "key" \in Fields /\ "hash" \in Fields /\ "next" \in Fields
      /\ f # "key" /\ f # "hash" /\ f \in Fields /\ y # NoBucket /\ z # NoBucket
  BY <1>2 DEF LinkFields, Fields, Buckets, NoBucket
<1>4. pc'[p] = "move"
  BY <1>0
<1>5. ~ Effective(p) /\ ~ Unbinds(p) /\ ~ Binds(p)
  BY DEF Effective, Unbinds, Binds
<1>6. ASSUME stores'[p] = << >> \/ MoveStage(p)', ret'[p] = Present PROVE WriterOK(p)'
  BY <1>4, <1>6 DEF WriterOK
<1>7. k # None
  BY KeysAssumption DEF None
<1>8. CASE /\ Apart(tbl, y) /\ Links(tbl, b, f, z) /\ tbl[z].hash = k /\ ~(b = y /\ f = "next")
           /\ s = <<Set(y, "key", k), Set(y, "hash", k), Set(y, "next", n), Set(b, f, y), StampStore,
                    Set(z, "hash", None), Set(z, "key", None), Set(z, "next", NoBucket)>>
           /\ tbl[y].hash = None /\ tbl[y].next = NoBucket
  <2>1. /\ Head(s) = Set(y, "key", k)
        /\ Tail(s) = <<Set(y, "hash", k), Set(y, "next", n), Set(b, f, y), StampStore,
                       Set(z, "hash", None), Set(z, "key", None), Set(z, "next", NoBucket)>>
    BY <1>8
  <2>2. /\ tbl' \in [Buckets -> Records]
        /\ \A w \in Buckets, g \in Fields : tbl'[w][g] = IF w = y /\ g = "key" THEN k ELSE tbl[w][g]
        /\ stores'[p] = Tail(s) /\ ret'[p] = Present
    BY <2>1, <1>0, <1>3, <1>5, StoreIs
  <2>3. \A w \in Buckets : /\ tbl'[w].first = tbl[w].first /\ tbl'[w].next = tbl[w].next
                           /\ tbl'[w].hash = tbl[w].hash
                           /\ tbl'[w].key = IF w = y THEN k ELSE tbl[w].key
    BY <2>2, <1>3 DEF Fields
  <2>4. Apart(tbl', y) /\ Links(tbl', b, f, z)
    BY <2>2, <1>3, <1>8 DEF Apart, Links, LinkFields
  <2>5. MoveStage(p)'
    BY <2>1, <2>2, <2>3, <2>4, <1>2, <1>8 DEF MoveStage
  <2>6. WriterOK(p)'
    BY <2>2, <2>5, <1>6
  <2>7. KeysMatch'
    BY <2>3, <1>8 DEF KeysMatch
  <2>8. \A j \in Keys : Kept(tbl, tbl', j, {})
    BY <2>2, <2>3, <1>0, KeptEntries
  <2> QED
    BY <2>3, <2>6, <2>7, <2>8, <1>5, KeepsAll
<1>9. CASE /\ Apart(tbl, y) /\ Links(tbl, b, f, z) /\ tbl[z].hash = k /\ ~(b = y /\ f = "next")
           /\ s = <<Set(y, "hash", k), Set(y, "next", n), Set(b, f, y), StampStore,
                    Set(z, "hash", None), Set(z, "key", None), Set(z, "next", NoBucket)>>
           /\ tbl[y].hash = None /\ tbl[y].key = k /\ tbl[y].next = NoBucket
  <2>1. /\ Head(s) = Set(y, "hash", k)
        /\ Tail(s) = <<Set(y, "next", n), Set(b, f, y), StampStore,
                       Set(z, "hash", None), Set(z, "key", None), Set(z, "next", NoBucket)>>
    BY <1>9
  <2>2. /\ tbl' \in [Buckets -> Records]
        /\ \A w \in Buckets, g \in Fields : tbl'[w][g] = IF w = y /\ g = "hash" THEN k ELSE tbl[w][g]
        /\ stores'[p] = Tail(s) /\ ret'[p] = Present
    BY <2>1, <1>0, <1>3, <1>5, StoreIs
  <2>3. \A w \in Buckets : /\ tbl'[w].first = tbl[w].first /\ tbl'[w].next = tbl[w].next
                           /\ tbl'[w].hash = IF w = y THEN k ELSE tbl[w].hash
                           /\ tbl'[w].key = tbl[w].key
    BY <2>2, <1>3 DEF Fields
  <2>4. Apart(tbl', y) /\ Links(tbl', b, f, z)
    BY <2>2, <1>3, <1>9 DEF Apart, Links, LinkFields
  <2>5. MoveStage(p)'
    BY <2>1, <2>2, <2>3, <2>4, <1>2, <1>9 DEF MoveStage
  <2>6. WriterOK(p)'
    BY <2>2, <2>5, <1>6
  <2>7. KeysMatch'
    BY <2>3, <1>9 DEF KeysMatch
  <2>8. \A j \in Keys : Kept(tbl, tbl', j, {})
    <3> SUFFICES ASSUME NEW j \in Keys PROVE Kept(tbl, tbl', j, {})
      OBVIOUS
    <3>1. \A w \in Buckets : tbl[w].hash = j => tbl'[w].hash = j
      BY <2>3, <1>9, KeysAssumption DEF None
    <3> QED
      BY <3>1, <2>2, <2>3, <1>0, KeptEntries
  <2>9. \A j \in Keys, w \in Buckets :
          tbl'[w].hash = j => (\E v \in Buckets : tbl[v].hash = j) \/ Putting(j)'
    BY <2>3, <1>9
  <2> QED
    BY <2>6, <2>7, <2>8, <2>9, <1>5, KeepsAll
<1>10. CASE /\ Apart(tbl, y) /\ Links(tbl, b, f, z) /\ tbl[z].hash = k /\ ~(b = y /\ f = "next")
            /\ s = <<Set(y, "next", n), Set(b, f, y), StampStore,
                     Set(z, "hash", None), Set(z, "key", None), Set(z, "next", NoBucket)>>
            /\ tbl[y].hash = k /\ tbl[y].next = NoBucket
  <2>1. /\ Head(s) = Set(y, "next", n)
        /\ Tail(s) = <<Set(b, f, y), StampStore,
                       Set(z, "hash", None), Set(z, "key", None), Set(z, "next", NoBucket)>>
    BY <1>10
  <2>2. /\ tbl' \in [Buckets -> Records]
        /\ \A w \in Buckets, g \in Fields : tbl'[w][g] = IF w = y /\ g = "next" THEN n ELSE tbl[w][g]
        /\ stores'[p] = Tail(s) /\ ret'[p] = Present
    BY <2>1, <1>0, <1>3, <1>5, StoreIs
  <2>3. \A w \in Buckets : /\ tbl'[w].first = tbl[w].first
                           /\ tbl'[w].next = IF w = y THEN n ELSE tbl[w].next
                           /\ tbl'[w].hash = tbl[w].hash
                           /\ tbl'[w].key = tbl[w].key
    BY <2>2, <1>3 DEF Fields
  <2>4. Apart(tbl', y) /\ Links(tbl', b, f, z)
    BY <2>2, <1>2, <1>3, <1>10 DEF Apart, Links, LinkFields
  <2>5. MoveStage(p)'
    BY <2>1, <2>2, <2>3, <2>4, <1>2, <1>10 DEF MoveStage
  <2>6. WriterOK(p)'
    BY <2>2, <2>5, <1>6
  <2>7. KeysMatch'
    BY <2>3 DEF KeysMatch
  <2>8. \A j \in Keys : Kept(tbl, tbl', j, {})
    BY <2>2, <2>3, <1>0, <1>10, KeptNext
  <2> QED
    BY <2>3, <2>6, <2>7, <2>8, <1>5, KeepsAll
<1>11. CASE /\ Apart(tbl, y) /\ Links(tbl, b, f, z) /\ tbl[z].hash = k /\ ~(b = y /\ f = "next")
            /\ s = <<Set(b, f, y), StampStore,
                     Set(z, "hash", None), Set(z, "key", None), Set(z, "next", NoBucket)>>
            /\ tbl[y].hash = k /\ tbl[y].next = n
  <2>1. /\ Head(s) = Set(b, f, y)
        /\ Tail(s) = <<StampStore, Set(z, "hash", None), Set(z, "key", None), Set(z, "next", NoBucket)>>
    BY <1>11
  <2>2. /\ tbl' \in [Buckets -> Records]
        /\ \A w \in Buckets, g \in Fields : tbl'[w][g] = IF w = b /\ g = f THEN y ELSE tbl[w][g]
        /\ stores'[p] = Tail(s) /\ ret'[p] = Present
    BY <2>1, <1>0, <1>3, <1>5, StoreIs
  <2>3. \A w \in Buckets : tbl'[w].hash = tbl[w].hash /\ tbl'[w].key = tbl[w].key
    BY <2>2, <1>3 DEF Fields
  <2>4. Apart(tbl', z)
    BY <2>2, <1>2, <1>3, <1>11 DEF Links, Apart, LinkFields
  <2>5. tbl'[z].next = n
    <3>1. ~(b = z /\ f = "next")
      BY <1>2, <1>11 DEF Links
    <3> QED
      BY <3>1, <2>2, <1>3
  <2>6. MoveStage(p)'
    BY <2>1, <2>2, <2>4, <2>5, <1>2 DEF MoveStage
  <2>7. WriterOK(p)'
    BY <2>2, <2>6, <1>6
  <2>8. KeysMatch'
    BY <2>3 DEF KeysMatch
  <2>9. Relinked(tbl, tbl', b, f) /\ tbl'[b][f] = y /\ tbl[b][f] = z
    BY <2>2, <2>3, <1>3, <1>11 DEF Relinked, Links
  <2>10. \A j \in Keys : Kept(tbl, tbl', j, {})
    BY <2>2, <2>9, <1>0, <1>2, <1>11, KeptCopy
  <2> QED
    BY <2>3, <2>7, <2>8, <2>10, <1>5, KeepsAll
<1>12. CASE /\ Apart(tbl, z)
            /\ s = <<StampStore, Set(z, "hash", None), Set(z, "key", None), Set(z, "next", NoBucket)>>
  <2>1. /\ Head(s) = StampStore
        /\ Tail(s) = <<Set(z, "hash", None), Set(z, "key", None), Set(z, "next", NoBucket)>>
    BY <1>12
  <2>2. /\ tbl' = tbl /\ stale' = [q \in Threads |-> pc[q] # "idle"]
        /\ stores'[p] = Tail(s) /\ ret'[p] = Present
    BY <2>1, <1>0, <1>5, StampIs
  <2>3. Left(z)' /\ Apart(tbl', z)
    BY <2>2, <1>0, <1>12 DEF Left
  <2>4. MoveStage(p)'
    BY <2>1, <2>2, <2>3, <1>2 DEF MoveStage
  <2>5. WriterOK(p)'
    BY <2>2, <2>4, <1>6
  <2>6. KeysMatch'
    BY <2>2 DEF KeysMatch
  <2>7. \A j \in Keys : Kept(tbl, tbl', j, {})
    BY <2>2, <1>0, KeptEntries
  <2> QED
    BY <2>2, <2>5, <2>6, <2>7, <1>5, KeepsAll
<1>13. ASSUME Apart(tbl, z), Left(z), NEW g \in {"hash", "key", "next"}, NEW v, Head(s) = Set(z, g, v),
              v = IF g = "next" THEN NoBucket ELSE None,
              g = "key" => tbl[z].hash = None
       PROVE  /\ \A w \in Buckets : /\ tbl'[w].first = tbl[w].first
                                    /\ tbl'[w].next = IF w = z /\ g = "next" THEN NoBucket ELSE tbl[w].next
                                    /\ tbl'[w].hash = IF w = z /\ g = "hash" THEN None ELSE tbl[w].hash
              /\ stores'[p] = Tail(s) /\ ret'[p] = Present
              /\ Apart(tbl', z) /\ Left(z)' /\ StoreKeeps(p)
  <2>1. g \in Fields
    BY DEF Fields
  <2>2. /\ tbl' \in [Buckets -> Records]
        /\ \A w \in Buckets, h \in Fields : tbl'[w][h] = IF w = z /\ h = g THEN v ELSE tbl[w][h]
        /\ stores'[p] = Tail(s) /\ ret'[p] = Present /\ stale' = stale
    BY <2>1, <1>0, <1>5, <1>13, StoreIs
  <2>3. \A w \in Buckets : /\ tbl'[w].first = tbl[w].first
                           /\ tbl'[w].next = IF w = z /\ g = "next" THEN NoBucket ELSE tbl[w].next
                           /\ tbl'[w].hash = IF w = z /\ g = "hash" THEN None ELSE tbl[w].hash
                           /\ tbl'[w].key = IF w = z /\ g = "key" THEN None ELSE tbl[w].key
    BY <2>2, <1>13 DEF Fields
  <2>4. Apart(tbl', z) /\ Left(z)'
    BY <2>2, <2>3, <1>0, <1>3, <1>13 DEF Apart, LinkFields, Left
  <2>5. KeysMatch'
    BY <2>3, <1>13 DEF KeysMatch
  <2>6. \A j \in Keys : Kept(tbl, tbl', j, {z})
    BY <2>2, <2>3, <1>0, <1>13, KeptApart
  <2>7. {z} \in SUBSET Buckets /\ \A w \in {z} : Left(w)
    BY <1>13
  <2>8. \A j \in Keys, w \in Buckets :
          tbl'[w].hash = j => (\E u \in Buckets : tbl[u].hash = j) \/ Putting(j)'
    <3> SUFFICES ASSUME NEW j \in Keys, NEW w \in Buckets, tbl'[w].hash = j
                 PROVE  \E u \in Buckets : tbl[u].hash = j
      OBVIOUS
    <3>1. j # None
      BY KeysAssumption DEF None
    <3> QED
      BY <3>1, <2>3
  <2>9. StoreKeeps(p)
    BY <2>5, <2>6, <2>7, <2>8, <1>5 DEF StoreKeeps
  <2> QED
    BY <2>2, <2>3, <2>4, <2>9
<1>14. CASE /\ Apart(tbl, z) /\ Left(z)
            /\ s = <<Set(z, "hash", None), Set(z, "key", None), Set(z, "next", NoBucket)>>
  <2>1. Head(s) = Set(z, "hash", None) /\ Tail(s) = <<Set(z, "key", None), Set(z, "next", NoBucket)>>
    BY <1>14
  <2>2. /\ tbl'[z].hash = None /\ tbl'[z].next = n
        /\ stores'[p] = Tail(s) /\ ret'[p] = Present
        /\ Apart(tbl', z) /\ Left(z)' /\ StoreKeeps(p)
    BY <2>1, <1>13, <1>14
  <2>3. MoveStage(p)'
    BY <2>1, <2>2, <1>2 DEF MoveStage
  <2> QED
    BY <2>2, <2>3, <1>6
<1>15. CASE /\ Apart(tbl, z) /\ Left(z)
            /\ s = <<Set(z, "key", None), Set(z, "next", NoBucket)>> /\ tbl[z].hash = None
  <2>1. Head(s) = Set(z, "key", None) /\ Tail(s) = <<Set(z, "next", NoBucket)>>
    BY <1>15
  <2>2. /\ tbl'[z].next = n
        /\ stores'[p] = Tail(s) /\ ret'[p] = Present
        /\ Apart(tbl', z) /\ Left(z)' /\ StoreKeeps(p)
    BY <2>1, <1>13, <1>15
  <2>3. MoveStage(p)'
    BY <2>1, <2>2, <1>2 DEF MoveStage
  <2> QED
    BY <2>2, <2>3, <1>6
<1>16. CASE Apart(tbl, z) /\ Left(z) /\ s = <<Set(z, "next", NoBucket)>>
  <2>1. Head(s) = Set(z, "next", NoBucket) /\ Tail(s) = << >>
    BY <1>16
  <2>2. stores'[p] = Tail(s) /\ ret'[p] = Present /\ StoreKeeps(p)
    BY <2>1, <1>13, <1>16
  <2> QED
    BY <2>1, <2>2, <1>6
<1> QED
  BY <1>2, <1>8, <1>9, <1>10, <1>11, <1>12, <1>14, <1>15, <1>16

LEMMA StoreIsKept ==
  ASSUME IndInv, UNCHANGED aligned, AnswersInv, NEW p \in Threads, Store(p)
  PROVE  StoreKeeps(p) /\ WriterOK(p)'
<1>1. KeysMatch /\ WriterOK(p) /\ pc[p] \in {"store", "move"}
  BY DEF AnswersInv, Store
<1>2. pc[p] = "store" => call[p].op \in {"put", "remove"}
  BY <1>1 DEF WriterOK
<1> QED
  BY <1>1, <1>2, PutStoreKeeps, RemoveStoreKeeps, MoveStoreKeeps

LEMMA OneUpdates ==
  ASSUME IndInv, NEW p \in Threads, NEW q \in Threads,
         pc[p] \in {"store", "move", "exit"}, pc[q] \in {"store", "move", "exit"}
  PROVE  q = p
BY DEF IndInv, TypeOK

LEMMA HasEntryNext ==
  (IndInv => \A k \in Keys : AbsMap[k] = Present => \E w \in Buckets : tbl[w].hash = k)'
<1>1. IndInv => \A k \in Keys : AbsMap[k] = Present => \E w \in Buckets : tbl[w].hash = k
  BY HasEntry
<1> QED
  BY <1>1, PTL

LEMMA PuttingIsNext ==
  (IndInv /\ (\A p \in Threads : WriterOK(p)) => \A k \in Keys : Putting(k) => AbsMap[k] = None)'
<1>1. IndInv /\ (\A p \in Threads : WriterOK(p)) => \A k \in Keys : Putting(k) => AbsMap[k] = None
  BY PuttingIs
<1> QED
  BY <1>1, PTL

(* A put is over with its last store.                                       *)
LEMMA LastStore ==
  ASSUME IndInv, NEW p \in Threads, Store(p), pc[p] = "store", call[p].op = "put"
  PROVE  Binds(p) <=> stores'[p] = << >>
<1>1. stores[p] \in Seq(Stores) /\ stores[p] # << >> /\ stores'[p] = Tail(stores[p])
  BY DEF Store, IndInv, TypeOK
<1>2. Tail(stores[p]) = << >> <=> Len(stores[p]) = 1
  <2> SUFFICES ASSUME NEW s \in Seq(Stores), s # << >> PROVE Tail(s) = << >> <=> Len(s) = 1
    BY <1>1
  <2>1. Tail(s) \in Seq(Stores) /\ Len(Tail(s)) = Len(s) - 1 /\ Len(s) \in Nat
    OBVIOUS
  <2>2. Len(Tail(s)) = 0 <=> Tail(s) = << >>
    BY <2>1
  <2> QED
    BY <2>1, <2>2
<1> QED
  BY <1>1, <1>2 DEF Binds, Effective

(* What a store does to the map.                                            *)
LEMMA StoreMap ==
  ASSUME IndInv, UNCHANGED aligned, AnswersInv, NEW p \in Threads, Store(p)
  PROVE  /\ MapOfEntries'
         /\ \A k \in Keys : /\ AbsMap[k] \in {None, Present} /\ AbsMap'[k] \in {None, Present}
                            /\ AbsMap[k] = Present /\ ~ (Unbinds(p) /\ k = Key(p)) => AbsMap'[k] = Present
                            /\ Unbinds(p) /\ k = Key(p) => AbsMap'[k] = None
                            /\ Binds(p) /\ k = Key(p) => AbsMap'[k] = Present
                            /\ Putting(k) => Putting(k)' \/ (Binds(p) /\ k = Key(p))
<1>a. IndInv' /\ StoreKeeps(p)
  BY StoreStep, StoreIsKept
<1>0. /\ IndInv' /\ StoreKeeps(p) /\ tbl \in [Buckets -> Records] /\ tbl' \in [Buckets -> Records]
      /\ UNCHANGED <<lock, pc, call, at>> /\ pc[p] \in {"store", "move"} /\ Present # None
      /\ MapOfEntries /\ \A q \in Threads \ {p} : stores'[q] = stores[q]
  BY <1>a DEF IndInv, TypeOK, Store, Present, None, AnswersInv
<1>1. \A k \in Keys : AbsMap[k] \in {None, Present} /\ AbsMap'[k] \in {None, Present}
  BY <1>0, MapMeets, MapMeetsNext
<1>2. ASSUME NEW k \in Keys, AbsMap[k] = Present, ~ (Unbinds(p) /\ k = Key(p))
      PROVE  AbsMap'[k] = Present
  <2>1. Meets(tbl, tbl[Home[k]].first, k) /\ Home[k] \in Buckets
    BY <1>0, <1>2, MapMeets, KeysAssumption
  <2>2. Meets(tbl', tbl'[Home[k]].first, k)
    BY <1>0, <1>2, <2>1 DEF StoreKeeps, Kept
  <2> QED
    BY <1>0, <2>2, MapMeetsNext
<1>3. ASSUME NEW k \in Keys, Unbinds(p), k = Key(p)
      PROVE  AbsMap'[k] = None
  <2>1. \A w \in Buckets : tbl'[w].hash # k
    BY <1>0, <1>3 DEF StoreKeeps
  <2> QED
    BY <1>0, <1>1, <2>1, HasEntryNext
<1>4. ASSUME NEW k \in Keys, Putting(k)
      PROVE  Putting(k)' \/ (Binds(p) /\ k = Key(p))
  <2>1. PICK w \in Threads : pc[w] = "store" /\ call[w].op = "put" /\ Key(w) = k /\ stores[w] # << >>
    BY <1>4 DEF Putting
  <2>2. w = p
    BY <1>0, <2>1, OneUpdates
  <2>3. CASE stores'[p] = << >>
    BY <2>1, <2>2, <2>3, LastStore
  <2>4. CASE stores'[p] # << >>
    BY <2>1, <2>2, <2>4, <1>0 DEF Putting, Key
  <2> QED
    BY <2>3, <2>4
<1>5. ASSUME NEW k \in Keys, NEW w \in Buckets, tbl'[w].hash = k, Binds(p), k = Key(p)
      PROVE  AbsMap'[k] = Present
  <2>1. pc[p] = "store" /\ call[p].op = "put"
    BY <1>5 DEF Binds, Effective
  <2>2. stores'[p] = << >> /\ pc'[p] = "store"
    BY <1>0, <1>5, <2>1, LastStore
  <2> QED
    BY <1>0, <1>5, <2>2, StoredLinkedNext DEF AllLinked
<1>6. ASSUME NEW k \in Keys, Binds(p), k = Key(p)
      PROVE  AbsMap'[k] = Present
  BY <1>0, <1>5, <1>6 DEF StoreKeeps
<1>7. ASSUME NEW k \in Keys, NEW w \in Buckets, tbl'[w].hash = k
      PROVE  AbsMap'[k] = Present \/ Putting(k)'
  <2>1. (\E v \in Buckets : tbl[v].hash = k) \/ Putting(k)'
    BY <1>0, <1>7 DEF StoreKeeps
  <2>2. ASSUME NEW v \in Buckets, tbl[v].hash = k PROVE AbsMap'[k] = Present \/ Putting(k)'
    <3>1. AbsMap[k] = Present \/ Putting(k)
      BY <1>0, <2>2 DEF MapOfEntries
    <3>2. ~ (Unbinds(p) /\ k = Key(p))
      BY <1>0, <1>7 DEF StoreKeeps
    <3> QED
      BY <3>1, <3>2, <1>2, <1>4, <1>6
  <2> QED
    BY <2>1, <2>2
<1>8. MapOfEntries'
  BY <1>7 DEF MapOfEntries
<1> QED
  BY <1>1, <1>2, <1>3, <1>4, <1>6, <1>8

(* What the calls see.                                                      *)
LEMMA Watched ==
  ASSUME IndInv, IndInv', Watch, NEW q \in Threads, pc'[q] # "idle", pc[q] = "idle" \/ call'[q] = call[q]
  PROVE  /\ AbsMap'[Key(q)'] \in seen'[q]
         /\ pc[q] # "idle" => seen[q] \subseteq seen'[q]
<1>1. (pc[q] = "idle" <=> call[q] = Idle) /\ (pc'[q] = "idle" <=> call'[q] = Idle)
  BY DEF IndInv, ThreadOK
<1>2. seen'[q] = IF call'[q] = Idle THEN {}
                 ELSE IF call[q] = Idle THEN {AbsMap'[call'[q].key]}
                 ELSE seen[q] \cup {AbsMap'[call[q].key]}
  BY DEF Watch
<1> QED
  BY <1>1, <1>2 DEF Key

LEMMA StoreAnswers ==
  ASSUME IndInv, UNCHANGED aligned, AnswersInv, NEW p \in Threads, Store(p), Watch
  PROVE  AnswersInv'
<1>0. /\ IndInv' /\ StoreKeeps(p) /\ WriterOK(p)' /\ MapOfEntries'
      /\ \A k \in Keys : /\ AbsMap[k] \in {None, Present} /\ AbsMap'[k] \in {None, Present}
                         /\ Unbinds(p) /\ k = Key(p) => AbsMap'[k] = None
                         /\ Binds(p) /\ k = Key(p) => AbsMap'[k] = Present
                         /\ Putting(k) => Putting(k)' \/ (Binds(p) /\ k = Key(p))
  BY StoreStep, StoreIsKept, StoreMap
<1>1. /\ UNCHANGED <<lock, pc, call, at>> /\ pc[p] \in {"store", "move"} /\ TypeOK
      /\ \A q \in Threads \ {p} : stores'[q] = stores[q] /\ ret'[q] = ret[q]
      /\ stale' = stale \/ stale' = [q \in Threads |-> pc[q] # "idle"]
  BY DEF Store, IndInv, TypeOK
<1>2. KeysMatch'
  BY <1>0 DEF StoreKeeps
<1>3. \A q \in Threads : /\ pc'[q] # "idle" => AbsMap'[Key(q)'] \in seen'[q]
                         /\ pc[q] # "idle" => seen[q] \subseteq seen'[q]
  BY <1>0, <1>1, Watched
<1>4. SeenNow'
  BY <1>3 DEF SeenNow
<1>5. ASSUME NEW q \in Threads PROVE WriterOK(q)'
  <2>1. CASE q = p
    BY <2>1, <1>0
  <2>2. CASE q # p
    <3>1. WriterOK(q) /\ pc[q] \notin {"store", "move"}
      BY <2>2, <1>1, OneUpdates DEF AnswersInv
    <3> QED
      BY <2>2, <3>1, <1>1 DEF WriterOK
  <2> QED
    BY <2>1, <2>2
<1>6. ASSUME NEW q \in Threads PROVE ReaderOK(q)'
  <2>1. CASE pc[q] \notin {"stamp", "first", "hash", "key", "next", "check"}
    BY <2>1, <1>1 DEF ReaderOK
  <2>2. CASE pc[q] \in {"stamp", "first", "hash", "key", "next", "check"}
    <3> PICK k \in Keys : k = Key(q)
      BY <2>2, KeyIs DEF IndInv
    <3>1. ReaderOK(q) /\ Key(q)' = k /\ pc[q] # "idle"
      BY <2>2, <1>1 DEF AnswersInv, Key
    <3>2. AbsMap'[k] \in seen'[q] /\ seen[q] \subseteq seen'[q]
      BY <2>2, <3>1, <1>1, <1>3
    <3>3. ~ stale'[q] => ~ stale[q]
      BY <3>1, <1>1
    <3>4. None \notin seen'[q] => ~ (Unbinds(p) /\ k = Key(p))
      BY <3>2, <1>0
    <3>5. PICK Z \in SUBSET Buckets :
            /\ \A z \in Z : Left(z)
            /\ \A j \in Keys : ~ (Unbinds(p) /\ j = Key(p)) => Kept(tbl, tbl', j, Z)
      BY <1>0 DEF StoreKeeps
    <3>6. pc[q] \in {"hash", "key", "next"} => at[q] \in Buckets
      BY DEF IndInv, ThreadOK
    <3>7. pc[q] \in {"hash", "key", "next"} /\ ~ stale'[q] => at[q] \notin Z
      BY <3>3, <3>5 DEF Left
    <3>8. pc[q] \in {"hash", "key"} /\ ~ stale'[q] /\ None \notin seen'[q] => Meets(tbl', at[q], k)
      <4> SUFFICES ASSUME pc[q] \in {"hash", "key"}, ~ stale'[q], None \notin seen'[q]
                   PROVE  Meets(tbl', at[q], k)
        OBVIOUS
      <4>1. Meets(tbl, at[q], k)
        BY <3>1, <3>2, <3>3 DEF ReaderOK
      <4> QED
        BY <4>1, <3>4, <3>5, <3>6, <3>7 DEF Kept
    <3>9. pc[q] = "next" /\ ~ stale'[q] /\ None \notin seen'[q] => Meets(tbl', tbl'[at[q]].next, k)
      <4> SUFFICES ASSUME pc[q] = "next", ~ stale'[q], None \notin seen'[q]
                   PROVE  Meets(tbl', tbl'[at[q]].next, k)
        OBVIOUS
      <4>1. Meets(tbl, tbl[at[q]].next, k)
        BY <3>1, <3>2, <3>3 DEF ReaderOK
      <4> QED
        BY <4>1, <3>4, <3>5, <3>6, <3>7 DEF Kept
    <3>10. pc[q] = "key" => Present \in seen'[q] \/ Putting(k)'
      <4> SUFFICES ASSUME pc[q] = "key" PROVE Present \in seen'[q] \/ Putting(k)'
        OBVIOUS
      <4>1. Present \in seen[q] \/ Putting(k)
        BY <3>1 DEF ReaderOK
      <4> QED
        BY <4>1, <3>2, <1>0
    <3>11. pc[q] = "check" /\ ~ stale'[q] => None \in seen'[q]
      BY <3>1, <3>2, <3>3 DEF ReaderOK
    <3>12. call'[q].op = "get"
      BY <3>1, <2>2, <1>1 DEF ReaderOK
    <3>13. Putting(k)' => Putting(Key(q))'
      BY <3>1 DEF Putting
    <3> QED
      BY <3>1, <3>8, <3>9, <3>10, <3>11, <3>12, <3>13, <1>1 DEF ReaderOK
  <2> QED
    BY <2>1, <2>2
<1> QED
  BY <1>0, <1>2, <1>4, <1>5, <1>6 DEF AnswersInv

-----------------------------------------------------------------------------
(* A step that stores nothing.                                              *)
LEMMA SameMap ==
  ASSUME tbl \in [Buckets -> Records], tbl' = tbl
  PROVE  AbsMap' = AbsMap
<1>1. \A k \in Keys : AbsMap'[k] = AbsMap[k]
  <2> SUFFICES ASSUME NEW k \in Keys PROVE AbsMap'[k] = AbsMap[k]
    OBVIOUS
  <2>1. /\ AbsMap[k] \in {None, Present} /\ (AbsMap[k] = Present <=> Meets(tbl, tbl[Home[k]].first, k))
    BY MapMeets
  <2>2. /\ AbsMap'[k] \in {None, Present} /\ (AbsMap'[k] = Present <=> Meets(tbl, tbl[Home[k]].first, k))
    BY MapMeetsNext
  <2> QED
    BY <2>1, <2>2
<1>2. AbsMap = [k \in Keys |-> AbsMap[k]] /\ AbsMap' = [k \in Keys |-> AbsMap'[k]]
  BY DEF AbsMap
<1> QED
  BY <1>1, <1>2

(* From one bucket on to the next: its entry is another one's.              *)
LEMMA MeetsOn ==
  ASSUME NEW a \in Buckets, NEW k \in Keys, Meets(tbl, a, k), tbl[a].hash # k,
         tbl \in [Buckets -> Records]
  PROVE  Meets(tbl, tbl[a].next, k)
<1>1. tbl[a].next # NoBucket
  <2> SUFFICES ASSUME tbl[a].next = NoBucket PROVE FALSE
    OBVIOUS
  <2>1. Closed(tbl, {a}) /\ {a} \in SUBSET Buckets
    BY DEF Closed
  <2> QED
    BY <2>1 DEF Meets
<1> SUFFICES ASSUME NEW S \in SUBSET Buckets, tbl[a].next \in S, Closed(tbl, S)
             PROVE  \E e \in S : tbl[e].hash = k
  BY <1>1 DEF Meets
<1>2. Closed(tbl, S \cup {a}) /\ S \cup {a} \in SUBSET Buckets
  BY DEF Closed
<1>3. PICK e \in S \cup {a} : tbl[e].hash = k
  BY <1>2 DEF Meets
<1> QED
  BY <1>3

(* A reader that goes on does not come to a bucket no link leads to.        *)
GoesOn(p) ==
  pc'[p] \in {"hash", "key", "next"} /\ ~ stale'[p] =>
    \/ pc[p] \in {"hash", "key", "next"} /\ ~ stale[p] /\ at'[p] = at[p]
    \/ \E w \in Buckets, f \in LinkFields : at'[p] = tbl[w][f]

LEMMA QuietAnswers ==
  ASSUME IndInv, IndInv', AnswersInv, Watch, NEW p \in Threads, tbl' = tbl,
         \A q \in Threads \ {p} : /\ pc'[q] = pc[q] /\ call'[q] = call[q] /\ at'[q] = at[q]
                                  /\ stale'[q] = stale[q] /\ stores'[q] = stores[q] /\ ret'[q] = ret[q],
         pc[p] = "idle" \/ pc'[p] = "idle" \/ call'[p] = call[p],
         pc[p] = "store" => stores[p] = << >>,
         WriterOK(p)', GoesOn(p),
         AbsMap' = AbsMap /\ MapOfEntries' /\ SeenNow' => ReaderOK(p)'
  PROVE  AnswersInv' /\ AbsMap' = AbsMap
<1>0. tbl \in [Buckets -> Records] /\ KeysMatch /\ MapOfEntries
  BY DEF IndInv, TypeOK, AnswersInv
<1>1. AbsMap' = AbsMap
  BY <1>0, SameMap
<1>2. ASSUME NEW k \in Keys, Putting(k) PROVE Putting(k)'
  <2>1. PICK w \in Threads : pc[w] = "store" /\ call[w].op = "put" /\ Key(w) = k /\ stores[w] # << >>
    BY <1>2 DEF Putting
  <2>2. w # p
    BY <2>1
  <2> QED
    BY <2>1, <2>2 DEF Putting, Key
<1>3. KeysMatch' /\ MapOfEntries'
  BY <1>0, <1>1, <1>2 DEF KeysMatch, MapOfEntries
<1>4. \A q \in Threads : /\ pc'[q] # "idle" => AbsMap'[Key(q)'] \in seen'[q]
                         /\ pc[q] # "idle" /\ pc'[q] # "idle" => seen[q] \subseteq seen'[q]
  <2> SUFFICES ASSUME NEW q \in Threads, pc'[q] # "idle"
               PROVE  /\ AbsMap'[Key(q)'] \in seen'[q]
                      /\ pc[q] # "idle" => seen[q] \subseteq seen'[q]
    OBVIOUS
  <2>1. pc[q] = "idle" \/ call'[q] = call[q]
    OBVIOUS
  <2> QED
    BY <2>1, Watched
<1>5. SeenNow'
  BY <1>4 DEF SeenNow
<1>6. ASSUME NEW y \in Buckets, Apart(tbl, y), Left(y) PROVE Left(y)'
  <2> SUFFICES ASSUME NEW q \in Threads, pc'[q] \in {"hash", "key", "next"}, ~ stale'[q]
               PROVE  at'[q] # y
    BY DEF Left
  <2>1. CASE q = p
    BY <2>1, <1>6 DEF GoesOn, Apart, Left
  <2>2. CASE q # p
    BY <2>2, <1>6 DEF Left
  <2> QED
    BY <2>1, <2>2
<1>7. ASSUME NEW q \in Threads \ {p} PROVE WriterOK(q)'
  <2>1. WriterOK(q) /\ Key(q)' = Key(q) /\ pc'[q] = pc[q] /\ stores'[q] = stores[q] /\ call'[q] = call[q]
        /\ ret'[q] = ret[q]
    BY DEF AnswersInv, Key
  <2>2. PutStage(q) => PutStage(q)'
    BY <2>1 DEF PutStage
  <2>3. RemoveStage(q) => RemoveStage(q)'
    BY <2>1, <1>6 DEF RemoveStage
  <2>4. MoveStage(q) => MoveStage(q)'
    BY <2>1, <1>6 DEF MoveStage
  <2> QED
    BY <2>1, <2>2, <2>3, <2>4 DEF WriterOK
<1>8. ASSUME NEW q \in Threads \ {p} PROVE ReaderOK(q)'
  <2>1. CASE pc[q] \notin {"stamp", "first", "hash", "key", "next", "check"}
    BY <2>1 DEF ReaderOK
  <2>2. CASE pc[q] \in {"stamp", "first", "hash", "key", "next", "check"}
    <3> PICK k \in Keys : k = Key(q)
      BY <2>2, KeyIs DEF IndInv
    <3>1. ReaderOK(q) /\ Key(q)' = k /\ pc[q] # "idle" /\ pc'[q] = pc[q] /\ call'[q] = call[q]
          /\ at'[q] = at[q] /\ stale'[q] = stale[q] /\ seen[q] \subseteq seen'[q]
      BY <2>2, <1>4 DEF AnswersInv, Key
    <3>2. Putting(k) => Putting(Key(q))'
      BY <3>1, <1>2 DEF Putting
    <3> QED
      BY <3>1, <3>2 DEF ReaderOK
  <2> QED
    BY <2>1, <2>2
<1>9. ReaderOK(p)'
  BY <1>1, <1>3, <1>5
<1> QED
  BY <1>1, <1>3, <1>5, <1>7, <1>8, <1>9 DEF AnswersInv

LEMMA InvokeAnswers ==
  ASSUME IndInv, AnswersInv, Watch, UNCHANGED aligned, NEW p \in Threads, Invoke(p)
  PROVE  AnswersInv' /\ AbsMap' = AbsMap
<1>1. PICK c \in Calls : /\ call' = [call EXCEPT ![p] = c]
                         /\ Goto(p, IF c.op = "get" THEN "stamp" ELSE "lock")
  BY DEF Invoke
<1>2. /\ UNCHANGED <<tbl, lock, at, stale, stores, ret>> /\ pc[p] = "idle"
      /\ pc \in [Threads -> Labels] /\ call \in [Threads -> Calls \cup {Idle}]
  BY DEF Invoke, table, locals, IndInv, TypeOK
<1>3. /\ pc'[p] = IF c.op = "get" THEN "stamp" ELSE "lock"
      /\ call'[p] = c
      /\ \A q \in Threads \ {p} : pc'[q] = pc[q] /\ call'[q] = call[q]
  BY <1>1, <1>2 DEF Goto
<1>4. IndInv'
  BY QuietSteps
<1>5. WriterOK(p)'
  <2>1. ret[p] = None
    BY <1>2 DEF AnswersInv, WriterOK
  <2> QED
    BY <2>1, <1>2, <1>3 DEF WriterOK
<1>6. ReaderOK(p)'
  BY <1>3 DEF ReaderOK
<1>7. GoesOn(p)
  BY <1>3 DEF GoesOn
<1> QED
  BY <1>2, <1>3, <1>4, <1>5, <1>6, <1>7, QuietAnswers

LEMMA ReturnAnswers ==
  ASSUME IndInv, AnswersInv, Watch, UNCHANGED aligned, NEW p \in Threads, Return(p)
  PROVE  AnswersInv' /\ AbsMap' = AbsMap
<1>1. /\ UNCHANGED <<tbl, lock, stores>> /\ pc[p] = "done" /\ pc'[p] = "idle" /\ ret'[p] = None
      /\ \A q \in Threads \ {p} : /\ pc'[q] = pc[q] /\ call'[q] = call[q] /\ at'[q] = at[q]
                                  /\ stale'[q] = stale[q] /\ ret'[q] = ret[q]
  BY DEF Return, table, Goto, IndInv, TypeOK
<1>2. IndInv'
  BY QuietSteps
<1>3. WriterOK(p)' /\ ReaderOK(p)' /\ GoesOn(p)
  BY <1>1 DEF WriterOK, ReaderOK, GoesOn
<1> QED
  BY <1>1, <1>2, <1>3, QuietAnswers

LEMMA ReadAnswers ==
  ASSUME IndInv, AnswersInv, Watch, UNCHANGED aligned, NEW p \in Threads, containsKey(p)
  PROVE  AnswersInv' /\ AbsMap' = AbsMap
<1>0. /\ UNCHANGED <<tbl, lock, call, stores>> /\ pc[p] \in {"stamp", "first", "hash", "key", "next", "check"}
      /\ \A q \in Threads \ {p} : /\ pc'[q] = pc[q] /\ at'[q] = at[q]
                                  /\ stale'[q] = stale[q] /\ ret'[q] = ret[q]
      /\ pc'[p] \notin {"store", "move"} /\ (pc'[p] = "done" \/ ret'[p] = ret[p]) /\ pc'[p] \in Labels
  <2>1. pc \in [Threads -> Labels] /\ at \in [Threads -> BucketOrNone]
        /\ stale \in [Threads -> BOOLEAN] /\ ret \in [Threads -> Vals \cup {None}]
    BY DEF IndInv, TypeOK
  <2>2. CASE Stamp(p)
    BY <2>1, <2>2 DEF Stamp, Goto, table, Labels
  <2>3. CASE ReadFirst(p)
    BY <2>1, <2>3 DEF ReadFirst, GoOn, Goto, table, Labels
  <2>4. CASE ReadHash(p)
    BY <2>1, <2>4 DEF ReadHash, Goto, table, locals, Labels
  <2>5. CASE ReadKey(p)
    BY <2>1, <2>5 DEF ReadKey, Goto, table, Labels
  <2>6. CASE ReadNext(p)
    BY <2>1, <2>6 DEF ReadNext, GoOn, Goto, table, Labels
  <2>7. CASE CheckStamp(p)
    BY <2>1, <2>7 DEF CheckStamp, Goto, table, locals, Labels
  <2> QED
    BY <2>2, <2>3, <2>4, <2>5, <2>6, <2>7 DEF containsKey
<1> PICK k \in Keys : k = Key(p)
  BY <1>0, KeyIs DEF IndInv
<1>1. /\ IndInv' /\ WriterOK(p) /\ ReaderOK(p) /\ MapOfEntries /\ KeysMatch /\ Home[k] \in Buckets
      /\ Key(p)' = k /\ call[p].op = "get" /\ tbl \in [Buckets -> Records]
      /\ pc \in [Threads -> Labels] /\ at \in [Threads -> BucketOrNone]
      /\ stale \in [Threads -> BOOLEAN] /\ ret \in [Threads -> Vals \cup {None}]
      /\ ThreadOK(p)
  BY <1>0, QuietSteps, KeysAssumption DEF AnswersInv, ReaderOK, IndInv, TypeOK, Key
<1>2. WriterOK(p)'
  BY <1>0, <1>1 DEF WriterOK
<1>3. /\ AbsMap[k] \in {None, Present} /\ Present # None
      /\ AbsMap[k] = Present <=> Meets(tbl, tbl[Home[k]].first, k)
  BY <1>1, MapMeets DEF Present, None
<1>4. pc[p] # "idle" /\ pc'[p] # "idle" => seen[p] \subseteq seen'[p]
  BY <1>0, <1>1, Watched
<1>5. ~ Meets(tbl, NoBucket, k)
  BY DEF Meets
<1>6. GoesOn(p) /\ (AbsMap' = AbsMap /\ MapOfEntries' /\ SeenNow' => ReaderOK(p)')
  <2>1. CASE Stamp(p)
    <3>1. pc'[p] = "first"
      BY <2>1, <1>1 DEF Stamp, Goto
    <3> QED
      BY <3>1, <1>0, <1>1 DEF ReaderOK, GoesOn
  <2>2. CASE ReadFirst(p)
    <3> DEFINE x == tbl[Home[k]].first
    <3>1. at'[p] = x /\ pc'[p] = IF x # NoBucket THEN "hash" ELSE "check"
      BY <2>2, <1>1 DEF ReadFirst, GoOn, Goto
    <3>2. GoesOn(p)
      BY <3>1, <1>1 DEF GoesOn, LinkFields
    <3>3. ASSUME AbsMap' = AbsMap, SeenNow' PROVE AbsMap[k] \in seen'[p]
      BY <3>1, <3>3, <1>1 DEF SeenNow
    <3> HIDE DEF x
    <3>4. AbsMap[k] = Present <=> Meets(tbl, x, k)
      BY <1>3 DEF x
    <3>5. ASSUME AbsMap' = AbsMap, SeenNow', x # NoBucket PROVE ReaderOK(p)'
      BY <3>1, <3>3, <3>4, <3>5, <1>0, <1>1, <1>3 DEF ReaderOK
    <3>6. ASSUME AbsMap' = AbsMap, SeenNow', x = NoBucket PROVE ReaderOK(p)'
      BY <3>1, <3>3, <3>4, <3>6, <1>0, <1>1, <1>3, <1>5 DEF ReaderOK
    <3> QED
      BY <3>2, <3>5, <3>6
  <2>3. CASE ReadHash(p)
    <3> DEFINE a == at[p]
    <3>1. pc'[p] = (IF tbl[a].hash = k THEN "key" ELSE "next") /\ at'[p] = a /\ stale'[p] = stale[p]
          /\ pc[p] = "hash" /\ a \in Buckets
      BY <2>3, <1>1 DEF ReadHash, Goto, locals, ThreadOK
    <3>2. GoesOn(p)
      BY <3>1 DEF GoesOn
    <3>3. ASSUME AbsMap' = AbsMap, SeenNow' PROVE AbsMap[k] \in seen'[p] /\ seen[p] \subseteq seen'[p]
      BY <3>1, <3>3, <1>1, <1>4 DEF SeenNow
    <3>4. ~ stale[p] /\ None \notin seen[p] => Meets(tbl, a, k)
      BY <3>1, <1>1 DEF ReaderOK
    <3> HIDE DEF a
    <3>5. ASSUME AbsMap' = AbsMap, MapOfEntries', SeenNow', tbl[a].hash = k PROVE ReaderOK(p)'
      <4>1. AbsMap[k] = Present \/ Putting(k)'
        BY <3>1, <3>5, <1>0 DEF MapOfEntries
      <4>2. Putting(k)' => Putting(Key(p))'
        BY <1>1 DEF Putting
      <4> QED
        BY <4>1, <4>2, <3>1, <3>3, <3>4, <3>5, <1>0, <1>1 DEF ReaderOK
    <3>6. ASSUME AbsMap' = AbsMap, SeenNow', tbl[a].hash # k PROVE ReaderOK(p)'
      <4>1. ~ stale[p] /\ None \notin seen[p] => Meets(tbl, tbl[a].next, k)
        BY <3>1, <3>4, <3>6, <1>1, MeetsOn
      <4> QED
        BY <4>1, <3>1, <3>3, <3>6, <1>0, <1>1 DEF ReaderOK
    <3> QED
      BY <3>2, <3>5, <3>6
  <2>4. CASE ReadKey(p)
    <3> DEFINE a == at[p]
    <3>1. pc'[p] = (IF tbl[a].key = k THEN "done" ELSE "next") /\ at'[p] = a /\ stale'[p] = stale[p]
          /\ pc[p] = "key" /\ a \in Buckets
      BY <2>4, <1>1 DEF ReadKey, Goto, ThreadOK
    <3>2. GoesOn(p)
      BY <3>1 DEF GoesOn
    <3>3. seen[p] \subseteq seen'[p]
      BY <3>1, <1>4
    <3>4. ~ stale[p] /\ None \notin seen[p] => Meets(tbl, a, k)
      BY <3>1, <1>1 DEF ReaderOK
    <3> HIDE DEF a
    <3>5. ASSUME tbl[a].key # k PROVE ReaderOK(p)'
      <4>1. tbl[a].hash # k
        BY <3>1, <3>5, <1>1, KeysAssumption DEF KeysMatch, None
      <4>2. ~ stale[p] /\ None \notin seen[p] => Meets(tbl, tbl[a].next, k)
        BY <4>1, <3>1, <3>4, <1>1, MeetsOn
      <4> QED
        BY <4>2, <3>1, <3>3, <3>5, <1>0, <1>1 DEF ReaderOK
    <3>6. ASSUME tbl[a].key = k PROVE ReaderOK(p)'
      BY <3>1, <3>6 DEF ReaderOK
    <3> QED
      BY <3>2, <3>5, <3>6
  <2>5. CASE ReadNext(p)
    <3> DEFINE x == tbl[at[p]].next
    <3>1. /\ at'[p] = x /\ pc'[p] = (IF x # NoBucket THEN "hash" ELSE "check") /\ stale'[p] = stale[p]
          /\ pc[p] = "next" /\ at[p] \in Buckets
      BY <2>5, <1>1 DEF ReadNext, GoOn, Goto, ThreadOK
    <3>2. GoesOn(p)
      BY <3>1, <1>1 DEF GoesOn, LinkFields
    <3>3. seen[p] \subseteq seen'[p]
      BY <3>1, <1>4
    <3>4. ~ stale[p] /\ None \notin seen[p] => Meets(tbl, x, k)
      BY <3>1, <1>1 DEF ReaderOK
    <3> HIDE DEF x
    <3>5. ASSUME x # NoBucket PROVE ReaderOK(p)'
      BY <3>1, <3>3, <3>4, <3>5, <1>0, <1>1 DEF ReaderOK
    <3>6. ASSUME x = NoBucket PROVE ReaderOK(p)'
      BY <3>1, <3>3, <3>4, <3>6, <1>0, <1>1, <1>5 DEF ReaderOK
    <3> QED
      BY <3>2, <3>5, <3>6
  <2>6. CASE CheckStamp(p)
    <3>1. pc'[p] = IF stale[p] THEN "stamp" ELSE "done"
      BY <2>6, <1>1 DEF CheckStamp, Goto
    <3> QED
      BY <3>1, <1>0, <1>1 DEF ReaderOK, GoesOn
  <2> QED
    BY <2>1, <2>2, <2>3, <2>4, <2>5, <2>6 DEF containsKey
<1> QED
  BY <1>0, <1>1, <1>2, <1>6, QuietAnswers

-----------------------------------------------------------------------------
(* The stores of an update, one after the other.                            *)
LEMMA Joined ==
  ASSUME NEW S, NEW s \in Seq(S), NEW t \in Seq(S), NEW u \in Seq(S), Len(u) = Len(s) + Len(t),
         \A i \in 1..Len(s) : u[i] = s[i], \A i \in 1..Len(t) : u[Len(s) + i] = t[i]
  PROVE  s \o t = u
<1>1. /\ s \o t \in Seq(S) /\ Len(s \o t) = Len(s) + Len(t) /\ Len(s) \in Nat /\ Len(t) \in Nat
      /\ \A i \in 1..Len(s) + Len(t) : (s \o t)[i] = IF i <= Len(s) THEN s[i] ELSE t[i - Len(s)]
  OBVIOUS
<1>2. ASSUME NEW i \in 1..Len(s) + Len(t) PROVE (s \o t)[i] = u[i]
  <2>1. CASE i <= Len(s)
    BY <2>1, <1>1
  <2>2. CASE ~ (i <= Len(s))
    <3>1. i - Len(s) \in 1..Len(t) /\ Len(s) + (i - Len(s)) = i
      BY <2>2, <1>1
    <3>2. u[Len(s) + (i - Len(s))] = t[i - Len(s)]
      BY <3>1
    <3>3. (s \o t)[i] = t[i - Len(s)]
      BY <2>2, <1>1
    <3> QED
      BY <3>1, <3>2, <3>3
  <2> QED
    BY <2>1, <2>2
<1> DEFINE v == s \o t
<1>3. v \in Seq(S) /\ Len(v) = Len(u) /\ \A i \in 1..Len(u) : v[i] = u[i]
  BY <1>1, <1>2
<1> HIDE DEF v
<1>4. v = u
  BY <1>3
<1> QED
  BY <1>4 DEF v

LEMMA JoinTwo ==
  ASSUME NEW S, NEW a \in S, NEW b \in S, NEW c \in S, NEW d \in S
  PROVE  <<a, b>> \o <<c, d>> = <<a, b, c, d>>
<1> DEFINE s == <<a, b>>
           t == <<c, d>>
           u == <<a, b, c, d>>
<1>1. s \in Seq(S) /\ t \in Seq(S) /\ u \in Seq(S) /\ Len(s) = 2 /\ Len(t) = 2 /\ Len(u) = 4
  OBVIOUS
<1>2. (\A i \in 1..2 : u[i] = s[i]) /\ \A i \in 1..2 : u[2 + i] = t[i]
  OBVIOUS
<1> HIDE DEF s, t, u
<1>3. /\ \A i \in 1..Len(s) : u[i] = s[i]
      /\ \A i \in 1..Len(t) : u[Len(s) + i] = t[i]
      /\ Len(u) = Len(s) + Len(t)
  BY <1>1, <1>2
<1>4. s \o t = u
  BY <1>1, <1>3, Joined
<1> QED
  BY <1>4 DEF s, t, u

LEMMA JoinThree ==
  ASSUME NEW S, NEW a \in S, NEW b \in S, NEW c \in S, NEW d \in S, NEW e \in S
  PROVE  <<a, b>> \o <<c, d, e>> = <<a, b, c, d, e>>
<1> DEFINE s == <<a, b>>
           t == <<c, d, e>>
           u == <<a, b, c, d, e>>
<1>1. s \in Seq(S) /\ t \in Seq(S) /\ u \in Seq(S) /\ Len(s) = 2 /\ Len(t) = 3 /\ Len(u) = 5
  OBVIOUS
<1>2. (\A i \in 1..2 : u[i] = s[i]) /\ \A i \in 1..3 : u[2 + i] = t[i]
  OBVIOUS
<1> HIDE DEF s, t, u
<1>3. /\ \A i \in 1..Len(s) : u[i] = s[i]
      /\ \A i \in 1..Len(t) : u[Len(s) + i] = t[i]
      /\ Len(u) = Len(s) + Len(t)
  BY <1>1, <1>2
<1>4. s \o t = u
  BY <1>1, <1>3, Joined
<1> QED
  BY <1>4 DEF s, t, u

LEMMA JoinMove ==
  ASSUME NEW S, NEW a \in S, NEW b \in S, NEW c \in S, NEW d \in S, NEW e \in S,
         NEW f \in S, NEW g \in S, NEW h \in S
  PROVE  <<a, b>> \o <<c, d, e>> \o <<f, g>> \o <<h>> = <<a, b, c, d, e, f, g, h>>
<1> DEFINE s == <<a, b, c, d, e>>
           t == <<f, g>>
           u == <<a, b, c, d, e, f, g>>
           v == <<h>>
           w == <<a, b, c, d, e, f, g, h>>
<1>0. <<a, b>> \o <<c, d, e>> = s
  BY JoinThree
<1>1. /\ s \in Seq(S) /\ t \in Seq(S) /\ v \in Seq(S) /\ u \in Seq(S) /\ w \in Seq(S)
      /\ Len(s) = 5 /\ Len(t) = 2 /\ Len(v) = 1 /\ Len(u) = 7 /\ Len(w) = 8
  OBVIOUS
<1>2. (\A i \in 1..5 : u[i] = s[i]) /\ \A i \in 1..2 : u[5 + i] = t[i]
  OBVIOUS
<1>3. (\A i \in 1..7 : w[i] = u[i]) /\ \A i \in 1..1 : w[7 + i] = v[i]
  OBVIOUS
<1> HIDE DEF s, t, u, v, w
<1>4. /\ \A i \in 1..Len(s) : u[i] = s[i]
      /\ \A i \in 1..Len(t) : u[Len(s) + i] = t[i]
      /\ Len(u) = Len(s) + Len(t)
  BY <1>1, <1>2
<1>5. s \o t = u
  BY <1>1, <1>4, Joined
<1>6. /\ \A i \in 1..Len(u) : w[i] = u[i]
      /\ \A i \in 1..Len(v) : w[Len(u) + i] = v[i]
      /\ Len(w) = Len(u) + Len(v)
  BY <1>1, <1>3
<1>7. u \o v = w
  BY <1>1, <1>6, Joined
<1>8. <<a, b>> \o <<c, d, e>> \o t \o v = w
  BY <1>0, <1>5, <1>7
<1> QED
  BY <1>8 DEF t, v, w
(* What the stores of an update link.                                       *)
LEMMA LinkIs ==
  ASSUME tbl \in [Buckets -> Records], NEW pos \in Positions, Sound(tbl, pos), NEW x \in Buckets,
         NEW n \in 1..Len(List(x))
  PROVE  \E b \in Buckets, f \in LinkFields :
           (\A v : LinkTo(x, n, v) = Set(b, f, v)) /\ Links(tbl, b, f, List(x)[n])
<1> DEFINE L == List(x)
           y == L[n]
<1>1. /\ Len(L) \in Nat
      /\ \A i \in 1..Len(L) :
           LET z == L[i] IN z \in Buckets /\ tbl[z].hash # None /\ Home[tbl[z].hash] = x /\ pos[z] = i
      /\ \A z \in Buckets : tbl[z].hash # None /\ Home[tbl[z].hash] = x =>
           pos[z] \in 1..Len(L) /\ L[pos[z]] = z
  BY ListEntries
<1>2. y \in Buckets /\ tbl[y].hash # None /\ Home[tbl[y].hash] = x /\ pos[y] = n /\ y # NoBucket
  BY <1>1 DEF Buckets, NoBucket
<1>3. CASE n = 1
  <2>1. \A v : LinkTo(x, n, v) = Set(x, "first", v)
    BY <1>3 DEF LinkTo
  <2> HIDE DEF y, L
  <2>2. tbl[x].first = y
    BY <1>2, <1>3 DEF Sound
  <2>3. ASSUME NEW w \in Buckets, tbl[w].first = y PROVE w = x
    BY <2>3, <1>2, SoundFacts
  <2>4. ASSUME NEW w \in Buckets, tbl[w].next = y PROVE FALSE
    <3>1. tbl[w].hash # None /\ pos[y] = pos[w] + 1
      BY <2>4, <1>2, SoundFacts
    <3>2. pos[w] \in Nat /\ pos[w] >= 1
      BY <3>1, SoundFacts
    <3> QED
      BY <3>1, <3>2, <1>2, <1>3
  <2>5. Links(tbl, x, "first", y)
    BY <2>2, <2>3, <2>4 DEF Links, LinkFields
  <2> QED
    BY <2>1, <2>5 DEF LinkFields, y, L
<1>4. CASE n # 1
  <2> DEFINE v == L[n - 1]
  <2>1. \A u : LinkTo(x, n, u) = Set(v, "next", u)
    BY <1>4 DEF LinkTo
  <2> HIDE DEF y, L
  <2>2. PICK z \in Buckets : /\ tbl[z].hash # None /\ Home[tbl[z].hash] = x
                             /\ pos[z] = n - 1 /\ tbl[z].next = y
    BY <1>2, <1>4 DEF Sound
  <2>3. v = z
    BY <2>2, <1>1
  <2> HIDE DEF v
  <2>4. ASSUME NEW w \in Buckets, tbl[w].first = y PROVE FALSE
    BY <2>4, <1>2, <1>4, SoundFacts
  <2>5. ASSUME NEW w \in Buckets, tbl[w].next = y PROVE w = z
    <3>1. tbl[w].hash # None /\ pos[y] = pos[w] + 1 /\ Home[tbl[w].hash] = x
      BY <2>5, <1>2, SoundFacts
    <3>2. pos[w] \in Nat /\ pos[z] \in Nat
      BY SoundFacts
    <3>3. pos[w] = pos[z]
      BY <3>1, <3>2, <2>2, <1>2
    <3> QED
      BY <3>1, <3>3, <2>2, SoundFacts
  <2>6. Links(tbl, z, "next", y)
    BY <2>2, <2>4, <2>5 DEF Links, LinkFields
  <2> QED
    BY <2>1, <2>3, <2>6 DEF LinkFields, y, L
<1> QED
  BY <1>3, <1>4

LEMMA FreeIsApart ==
  ASSUME tbl \in [Buckets -> Records], SoundTable(tbl), NEW y \in Buckets, tbl[y].hash = None
  PROVE  Apart(tbl, y) /\ tbl[y].next = NoBucket
<1>1. PICK pos \in Positions : Sound(tbl, pos)
  BY DEF SoundTable
<1>2. tbl[y].next = NoBucket /\ y # NoBucket
  BY <1>1 DEF Sound, Buckets, NoBucket
<1>3. \A w \in Buckets : tbl[w].first # y /\ tbl[w].next # y
  BY <1>1, <1>2, SoundFacts
<1> QED
  BY <1>2, <1>3 DEF Apart, LinkFields

LEMMA PutPlan ==
  ASSUME tbl \in [Buckets -> Records], SoundTable(tbl), NEW k \in Keys,
         Find(Home[k], k) = {},
         FreeInLine(Home[k]) \cup Ahead(Home[k]) \cup Behind(Home[k]) # {}
  PROVE  \E y, b \in Buckets, f \in LinkFields :
           /\ Apart(tbl, y) /\ ~(b = y /\ f = "next")
           /\ \A w \in Buckets : tbl[w].hash # k
           /\ PutStores(Home[k], k) = <<Set(y, "key", k), Set(y, "hash", k), Set(y, "next", tbl[b][f]), Set(b, f, y)>>
           /\ tbl[y].hash = None /\ tbl[y].next = NoBucket
<1> DEFINE x == Home[k]
<1>0. x \in Buckets
  BY KeysAssumption
<1>1. PICK y \in Buckets : /\ tbl[y].hash = None
                           /\ PutsFirst(x, y, k) \/ \E v \in Buckets : PutsAfter(x, v, y, k)
  BY PutIs
<1>2. \A w \in Buckets : tbl[w].hash # k
  BY PutIs
<1>3. Apart(tbl, y) /\ tbl[y].next = NoBucket
  BY <1>1, FreeIsApart
<1>4. \A c, d : Fill(y, k) \o <<c, d>> = <<Set(y, "key", k), Set(y, "hash", k), c, d>>
  <2> SUFFICES ASSUME NEW c, NEW d PROVE Fill(y, k) \o <<c, d>> = <<Set(y, "key", k), Set(y, "hash", k), c, d>>
    OBVIOUS
  <2> DEFINE S == {Set(y, "key", k), Set(y, "hash", k), c, d}
  <2>1. Set(y, "key", k) \in S /\ Set(y, "hash", k) \in S /\ c \in S /\ d \in S
    OBVIOUS
  <2> HIDE DEF S
  <2> QED
    BY <2>1, JoinTwo DEF Fill
<1>5. CASE PutsFirst(x, y, k)
  <2>1. PutStores(x, k) = <<Set(y, "key", k), Set(y, "hash", k), Set(y, "next", tbl[x].first), Set(x, "first", y)>>
    BY <1>4, <1>5 DEF PutsFirst
  <2> QED
    BY <2>1, <1>0, <1>1, <1>2, <1>3 DEF LinkFields
<1>6. ASSUME NEW v \in Buckets, PutsAfter(x, v, y, k)
      PROVE  \E b \in Buckets, f \in LinkFields :
               /\ ~(b = y /\ f = "next")
               /\ PutStores(x, k) = <<Set(y, "key", k), Set(y, "hash", k), Set(y, "next", tbl[b][f]), Set(b, f, y)>>
  <2>1. PutStores(x, k) = <<Set(y, "key", k), Set(y, "hash", k), Set(y, "next", tbl[v].next), Set(v, "next", y)>>
    BY <1>4, <1>6 DEF PutsAfter
  <2>2. v # y
    BY <1>1, <1>6 DEF PutsAfter
  <2> QED
    BY <2>1, <2>2 DEF LinkFields
<1> QED
  BY <1>1, <1>2, <1>3, <1>5, <1>6

LEMMA RemovePlan ==
  ASSUME tbl \in [Buckets -> Records], SoundTable(tbl), NEW k \in Keys, NEW n \in Find(Home[k], k)
  PROVE  \E y, b \in Buckets, f \in LinkFields :
           /\ y = List(Home[k])[n] /\ tbl[y].next # y /\ Links(tbl, b, f, y) /\ tbl[y].hash = k
           /\ \A w \in Buckets \ {y} : tbl[w].hash # k
           /\ remove_key(Home[k], n) = <<Set(y, "hash", None), Set(y, "key", None), Set(b, f, tbl[y].next),
                                         StampStore, Set(y, "next", NoBucket)>>
<1> DEFINE x == Home[k]
           y == List(x)[n]
<1>0. x \in Buckets /\ k # None
  BY KeysAssumption DEF None
<1>1. PICK pos \in Positions : Sound(tbl, pos)
  BY DEF SoundTable
<1>2. n \in 1..Len(List(x)) /\ tbl[y].hash = k
  BY DEF Find
<1>3. y \in Buckets
  BY <1>0, <1>1, <1>2, ListEntries
<1>4. PICK b \in Buckets, f \in LinkFields :
        (\A v : LinkTo(x, n, v) = Set(b, f, v)) /\ Links(tbl, b, f, y)
  BY <1>0, <1>1, <1>2, LinkIs
<1>5. remove_key(x, n) = Clear(y) \o <<Set(b, f, tbl[y].next), StampStore, Set(y, "next", NoBucket)>>
  BY <1>4 DEF remove_key
<1> HIDE DEF y
<1>6. remove_key(x, n) = <<Set(y, "hash", None), Set(y, "key", None), Set(b, f, tbl[y].next),
                           StampStore, Set(y, "next", NoBucket)>>
  <2> DEFINE c == Set(b, f, tbl[y].next)
             d == StampStore
             e == Set(y, "next", NoBucket)
             S == {Set(y, "hash", None), Set(y, "key", None), c, d, e}
  <2>1. Set(y, "hash", None) \in S /\ Set(y, "key", None) \in S /\ c \in S /\ d \in S /\ e \in S
    OBVIOUS
  <2> HIDE DEF S, c, d, e
  <2>2. Clear(y) \o <<c, d, e>> = <<Set(y, "hash", None), Set(y, "key", None), c, d, e>>
    BY <2>1, JoinThree DEF Clear
  <2> QED
    BY <2>2, <1>5 DEF c, d, e
<1>7. tbl[y].next # y
  <2> SUFFICES ASSUME tbl[y].next = y PROVE FALSE
    OBVIOUS
  <2>1. y # NoBucket /\ pos[y] \in Nat
    BY <1>1, <1>3, SoundFacts
  <2>2. pos[y] = pos[y] + 1
    BY <2>1, <1>1, <1>3, SoundFacts
  <2> QED
    BY <2>1, <2>2
<1>8. \A w \in Buckets \ {y} : tbl[w].hash # k
  BY <1>0, <1>1, <1>2, <1>3 DEF Sound
<1> QED
  BY <1>2, <1>3, <1>4, <1>6, <1>7, <1>8 DEF y

LEMMA MovePlan ==
  ASSUME tbl \in [Buckets -> Records], SoundTable(tbl), NEW y \in Buckets, tbl[y].hash = None,
         NEW m \in Movable(y)
  PROVE  \E z, b \in Buckets, f \in LinkFields, k \in Keys :
           /\ y # z /\ tbl[z].next \notin {y, z}
           /\ Apart(tbl, y) /\ Links(tbl, b, f, z) /\ tbl[z].hash = k /\ ~(b = y /\ f = "next")
           /\ MoveStores(y, m[1], m[2]) =
                <<Set(y, "key", k), Set(y, "hash", k), Set(y, "next", tbl[z].next), Set(b, f, y), StampStore,
                  Set(z, "hash", None), Set(z, "key", None), Set(z, "next", NoBucket)>>
           /\ tbl[y].hash = None /\ tbl[y].next = NoBucket
<1> DEFINE x == m[1]
           n == m[2]
           z == List(x)[n]
           k == tbl[z].hash
<1>0. x \in Buckets /\ n \in 1..NumBuckets /\ n <= Len(List(x))
  BY LineInside DEF Movable
<1>1. PICK pos \in Positions : Sound(tbl, pos)
  BY DEF SoundTable
<1>2. Len(List(x)) \in Nat /\ \A i \in 1..Len(List(x)) : List(x)[i] \in Buckets /\ tbl[List(x)[i]].hash # None
  BY <1>0, <1>1, ListEntries
<1>3. n \in 1..Len(List(x)) /\ z \in Buckets /\ tbl[z].hash # None
  BY <1>0, <1>2, SizesAssumption
<1>4. PICK b \in Buckets, f \in LinkFields :
        (\A v : LinkTo(x, n, v) = Set(b, f, v)) /\ Links(tbl, b, f, z)
  BY <1>0, <1>1, <1>3, LinkIs
<1>5. MoveStores(y, x, n) = Fill(y, k) \o <<Set(y, "next", tbl[z].next), Set(b, f, y), StampStore>>
                              \o Clear(z) \o <<Set(z, "next", NoBucket)>>
  BY <1>4 DEF MoveStores
<1> HIDE DEF x, n, z
<1>6. MoveStores(y, x, n) =
        <<Set(y, "key", k), Set(y, "hash", k), Set(y, "next", tbl[z].next), Set(b, f, y), StampStore,
          Set(z, "hash", None), Set(z, "key", None), Set(z, "next", NoBucket)>>
  <2> DEFINE a1 == Set(y, "key", k)
             a2 == Set(y, "hash", k)
             a3 == Set(y, "next", tbl[z].next)
             a4 == Set(b, f, y)
             a5 == StampStore
             a6 == Set(z, "hash", None)
             a7 == Set(z, "key", None)
             a8 == Set(z, "next", NoBucket)
             S == {a1, a2, a3, a4, a5, a6, a7, a8}
  <2>1. /\ a1 \in S /\ a2 \in S /\ a3 \in S /\ a4 \in S /\ a5 \in S /\ a6 \in S /\ a7 \in S /\ a8 \in S
    OBVIOUS
  <2>2. MoveStores(y, x, n) = <<a1, a2>> \o <<a3, a4, a5>> \o <<a6, a7>> \o <<a8>>
    BY <1>5 DEF Fill, Clear
  <2> HIDE DEF S, a1, a2, a3, a4, a5, a6, a7, a8
  <2>3. MoveStores(y, x, n) = <<a1, a2, a3, a4, a5, a6, a7, a8>>
    BY <2>1, <2>2, JoinMove
  <2> QED
    BY <2>3 DEF a1, a2, a3, a4, a5, a6, a7, a8
<1>7. k \in Keys /\ y # z
  BY <1>3 DEF Records
<1>8. Apart(tbl, y) /\ tbl[y].next = NoBucket
  BY FreeIsApart
<1>9. tbl[z].next \notin {y, z} /\ ~(b = y /\ f = "next")
  <2>1. z # NoBucket /\ pos[z] \in Nat
    BY <1>1, <1>3, SoundFacts
  <2>2. tbl[z].next # z
    <3> SUFFICES ASSUME tbl[z].next = z PROVE FALSE
      OBVIOUS
    <3>1. pos[z] = pos[z] + 1
      BY <2>1, <1>1, <1>3, SoundFacts
    <3> QED
      BY <2>1, <3>1
  <2>3. tbl[z].next # y
    BY <1>3, <1>8 DEF Apart, LinkFields
  <2>4. ~(b = y /\ f = "next")
    BY <2>1, <1>4, <1>8 DEF Links
  <2> QED
    BY <2>2, <2>3, <2>4
<1> QED
  BY <1>3, <1>4, <1>6, <1>7, <1>8, <1>9 DEF x, n

-----------------------------------------------------------------------------
(* Updates begin, are refused, and end.                                     *)
LEMMA PutAnswers ==
  ASSUME IndInv, AnswersInv, Watch, UNCHANGED aligned, NEW p \in Threads, putIfAbsent(p)
  PROVE  AnswersInv' /\ AbsMap' = AbsMap
<1>0. /\ pc[p] = "lock" /\ call[p].op = "put" /\ lock = None /\ UNCHANGED <<tbl, call, at, stale, ret>>
      /\ IndInv' /\ pc \in [Threads -> Labels] /\ tbl \in [Buckets -> Records] /\ SoundTable(tbl)
      /\ stores \in [Threads -> Seq(Stores)]
  BY PutStep DEF putIfAbsent, CanLock, IndInv, TypeOK
<1> PICK k \in Keys : k = Key(p)
  BY <1>0, KeyIs DEF IndInv
<1>1. ret'[p] = None /\ Key(p)' = k
  BY <1>0 DEF AnswersInv, WriterOK, Key
<1> DEFINE x == Home[k]
<1>2. /\ \A q \in Threads \ {p} : pc'[q] = pc[q] /\ stores'[q] = stores[q]
      /\ \/ pc'[p] \in {"done", "exit"}
         \/ /\ Find(x, k) = {} /\ FreeInLine(x) \cup Ahead(x) \cup Behind(x) # {}
            /\ pc'[p] = "store" /\ stores'[p] = PutStores(x, k)
  <2>1. CASE Find(x, k) # {}
    BY <2>1, <1>0 DEF putIfAbsent, Goto
  <2>2. CASE Find(x, k) = {} /\ FreeInLine(x) \cup Ahead(x) \cup Behind(x) = {}
    BY <2>2, <1>0 DEF putIfAbsent, Goto
  <2>3. CASE Find(x, k) = {} /\ FreeInLine(x) \cup Ahead(x) \cup Behind(x) # {}
    BY <2>3, <1>0 DEF putIfAbsent, Goto
  <2> QED
    BY <2>1, <2>2, <2>3
<1>3. WriterOK(p)'
  <2>1. CASE pc'[p] \in {"done", "exit"}
    BY <2>1, <1>1 DEF WriterOK
  <2>2. CASE /\ Find(x, k) = {} /\ FreeInLine(x) \cup Ahead(x) \cup Behind(x) # {}
             /\ pc'[p] = "store" /\ stores'[p] = PutStores(x, k)
    <3>1. PICK y \in Buckets, b \in Buckets, f \in LinkFields :
            /\ Apart(tbl, y) /\ ~(b = y /\ f = "next")
            /\ \A w \in Buckets : tbl[w].hash # k
            /\ PutStores(x, k) = <<Set(y, "key", k), Set(y, "hash", k), Set(y, "next", tbl[b][f]), Set(b, f, y)>>
            /\ tbl[y].hash = None /\ tbl[y].next = NoBucket
      BY <2>2, <1>0, PutPlan
    <3> HIDE DEF x
    <3>2. PutStage(p)'
      BY <3>1, <2>2, <1>0, <1>1 DEF PutStage
    <3> QED
      BY <3>2, <2>2, <1>0, <1>1 DEF WriterOK
  <2> QED
    BY <2>1, <2>2, <1>2
<1>4. ReaderOK(p)' /\ GoesOn(p)
  BY <1>2 DEF ReaderOK, GoesOn
<1> QED
  BY <1>0, <1>2, <1>3, <1>4, QuietAnswers

LEMMA RemoveAnswers ==
  ASSUME IndInv, AnswersInv, Watch, UNCHANGED aligned, NEW p \in Threads, remove(p)
  PROVE  AnswersInv' /\ AbsMap' = AbsMap
<1>0. /\ pc[p] = "lock" /\ call[p].op = "remove" /\ lock = None /\ UNCHANGED <<tbl, call, stale, ret>>
      /\ IndInv' /\ pc \in [Threads -> Labels] /\ tbl \in [Buckets -> Records] /\ SoundTable(tbl)
      /\ stores \in [Threads -> Seq(Stores)] /\ at \in [Threads -> BucketOrNone]
  BY RemoveStep DEF remove, CanLock, IndInv, TypeOK
<1> PICK k \in Keys : k = Key(p)
  BY <1>0, KeyIs DEF IndInv
<1>1. ret'[p] = None /\ Key(p)' = k
  BY <1>0 DEF AnswersInv, WriterOK, Key
<1> DEFINE x == Home[k]
<1>2. /\ \A q \in Threads \ {p} : pc'[q] = pc[q] /\ stores'[q] = stores[q] /\ at'[q] = at[q]
      /\ \/ pc'[p] = "done"
         \/ \E n \in Find(x, k) : pc'[p] = "store" /\ stores'[p] = remove_key(x, n)
  <2>1. CASE Find(x, k) = {}
    BY <2>1, <1>0 DEF remove, Goto
  <2>2. CASE Find(x, k) # {}
    <3> DEFINE n == CHOOSE n \in Find(x, k) : TRUE
    <3>1. n \in Find(x, k)
      BY <2>2
    <3>2. /\ stores' = [stores EXCEPT ![p] = remove_key(x, n)]
          /\ at' = [at EXCEPT ![p] = List(x)[n]]
          /\ Goto(p, "store")
      BY <2>2 DEF remove
    <3> HIDE DEF n
    <3> QED
      BY <3>1, <3>2, <1>0 DEF Goto
  <2> QED
    BY <2>1, <2>2
<1>3. WriterOK(p)'
  <2>1. CASE pc'[p] = "done"
    BY <2>1 DEF WriterOK
  <2>2. ASSUME NEW n \in Find(x, k), pc'[p] = "store", stores'[p] = remove_key(x, n) PROVE WriterOK(p)'
    <3>0. n \in Find(Home[k], k) /\ tbl \in [Buckets -> Records] /\ SoundTable(tbl)
      BY <1>0
    <3>1. PICK y, b \in Buckets, f \in LinkFields :
            /\ y = List(Home[k])[n] /\ tbl[y].next # y /\ Links(tbl, b, f, y) /\ tbl[y].hash = k
            /\ \A w \in Buckets \ {y} : tbl[w].hash # k
            /\ remove_key(Home[k], n) = <<Set(y, "hash", None), Set(y, "key", None), Set(b, f, tbl[y].next),
                                          StampStore, Set(y, "next", NoBucket)>>
      BY <3>0, RemovePlan
    <3>2. stores'[p] = <<Set(y, "hash", None), Set(y, "key", None), Set(b, f, tbl[y].next),
                         StampStore, Set(y, "next", NoBucket)>>
      BY <3>1, <2>2
    <3>3. Links(tbl, b, f, y)'
      BY <3>1, <1>0 DEF Links
    <3>4. RemoveStage(p)'
      BY <3>1, <3>2, <3>3, <1>0, <1>1 DEF RemoveStage
    <3> QED
      BY <3>4, <2>2, <1>0 DEF WriterOK
  <2> QED
    BY <2>1, <2>2, <1>2
<1>4. ReaderOK(p)' /\ GoesOn(p)
  BY <1>2 DEF ReaderOK, GoesOn
<1> QED
  BY <1>0, <1>2, <1>3, <1>4, QuietAnswers

LEMMA MoveAnswers ==
  ASSUME IndInv, AnswersInv, Watch, UNCHANGED aligned, NEW p \in Threads, optimize_cacheline_use(p)
  PROVE  AnswersInv' /\ AbsMap' = AbsMap
<1> DEFINE m == CHOOSE m \in Movable(at[p]) : \A o \in Movable(at[p]) :
                  m[1] < o[1] \/ (m[1] = o[1] /\ m[2] <= o[2])
<1>0. /\ pc[p] = "store" /\ stores[p] = << >> /\ call[p].op = "remove" /\ Movable(at[p]) # {}
      /\ UNCHANGED <<tbl, lock, call, at, stale, ret>> /\ tbl \in [Buckets -> Records]
      /\ Goto(p, "move") /\ stores' = [stores EXCEPT ![p] = MoveStores(at[p], m[1], m[2])]
      /\ pc \in [Threads -> Labels] /\ stores \in [Threads -> Seq(Stores)]
  BY DEF optimize_cacheline_use, IndInv, TypeOK, table
<1>1. IndInv' /\ SoundTable(tbl) /\ at[p] \in Buckets /\ tbl[at[p]].hash = None
  BY <1>0, Stored, MoveStep
<1>2. m \in Movable(at[p])
  BY <1>0, <1>1, FirstMovable
<1> HIDE DEF m
<1>3. /\ pc'[p] = "move" /\ stores'[p] = MoveStores(at[p], m[1], m[2])
      /\ \A q \in Threads \ {p} : pc'[q] = pc[q] /\ stores'[q] = stores[q]
  BY <1>0 DEF Goto
<1>4. ret[p] = Present
  <2>1. (stores[p] = << >> /\ ret[p] = Present) \/ RemoveStage(p)
    BY <1>0 DEF AnswersInv, WriterOK
  <2>2. stores[p] = << >> => ~ RemoveStage(p)
    BY DEF RemoveStage
  <2> QED
    BY <1>0, <2>1, <2>2
<1>5. WriterOK(p)'
  <2> PICK y \in Buckets : y = at[p]
    BY <1>1
  <2>0. m \in Movable(y) /\ tbl[y].hash = None /\ tbl \in [Buckets -> Records] /\ SoundTable(tbl)
    BY <1>0, <1>1, <1>2
  <2>1. PICK z, b \in Buckets, f \in LinkFields, k \in Keys :
          /\ y # z /\ tbl[z].next \notin {y, z}
          /\ Apart(tbl, y) /\ Links(tbl, b, f, z) /\ tbl[z].hash = k /\ ~(b = y /\ f = "next")
          /\ MoveStores(y, m[1], m[2]) =
               <<Set(y, "key", k), Set(y, "hash", k), Set(y, "next", tbl[z].next), Set(b, f, y), StampStore,
                 Set(z, "hash", None), Set(z, "key", None), Set(z, "next", NoBucket)>>
          /\ tbl[y].hash = None /\ tbl[y].next = NoBucket
    BY <2>0, MovePlan
  <2>2. MoveStage(p)'
    BY <2>1, <1>0, <1>3 DEF MoveStage
  <2> QED
    BY <2>2, <1>0, <1>3, <1>4 DEF WriterOK
<1>6. ReaderOK(p)' /\ GoesOn(p)
  BY <1>3 DEF ReaderOK, GoesOn
<1> QED
  BY <1>0, <1>1, <1>3, <1>5, <1>6, QuietAnswers

LEMMA UnlockAnswers ==
  ASSUME IndInv, AnswersInv, Watch, UNCHANGED aligned, NEW p \in Threads, Unlock(p)
  PROVE  AnswersInv' /\ AbsMap' = AbsMap
<1>0. /\ pc[p] \in {"store", "move"} /\ stores[p] = << >>
      /\ UNCHANGED <<tbl, call, at, stale, stores, ret>> /\ Goto(p, "done")
      /\ pc \in [Threads -> Labels]
  BY DEF Unlock, locals, IndInv, TypeOK
<1>1. pc'[p] = "done" /\ \A q \in Threads \ {p} : pc'[q] = pc[q]
  BY <1>0 DEF Goto
<1>2. IndInv'
  BY UnlockStep
<1>3. WriterOK(p)' /\ ReaderOK(p)' /\ GoesOn(p)
  BY <1>1 DEF WriterOK, ReaderOK, GoesOn
<1> QED
  BY <1>0, <1>1, <1>2, <1>3, QuietAnswers

-----------------------------------------------------------------------------
(* What a store does to the map as a whole.                                 *)
LEMMA StoreEffect ==
  ASSUME IndInv, UNCHANGED aligned, AnswersInv, NEW p \in Threads, Store(p), Watch, NEW k, k = Key(p)
  PROVE  /\ Binds(p) => AbsMap[k] = None /\ AbsMap' = [AbsMap EXCEPT ![k] = Present]
         /\ Unbinds(p) => AbsMap[k] = Present /\ AbsMap' = [AbsMap EXCEPT ![k] = None]
         /\ ~ Binds(p) /\ ~ Unbinds(p) => AbsMap' = AbsMap
<1>a. IndInv' /\ StoreKeeps(p) /\ AnswersInv'
  BY StoreStep, StoreIsKept, StoreAnswers
<1>b. (AnswersInv => MapOfEntries /\ \A q \in Threads : WriterOK(q))
  BY DEF AnswersInv
<1>0. /\ IndInv' /\ StoreKeeps(p) /\ MapOfEntries /\ pc[p] \in {"store", "move"} /\ stores[p] # << >>
      /\ (\A q \in Threads : WriterOK(q))' /\ (\A q \in Threads : WriterOK(q)) /\ Present # None
  <2>1. (\A q \in Threads : WriterOK(q))'
    BY <1>a DEF AnswersInv
  <2> QED
    BY <1>a, <1>b, <2>1 DEF Store, Present, None
<1>1. k \in Keys
  BY <1>0, KeyIs DEF IndInv
<1>2. \A j \in Keys : /\ AbsMap[j] \in {None, Present} /\ AbsMap'[j] \in {None, Present}
                      /\ AbsMap[j] = Present /\ ~ (Unbinds(p) /\ j = k) => AbsMap'[j] = Present
                      /\ Unbinds(p) /\ j = k => AbsMap'[j] = None
                      /\ Binds(p) /\ j = k => AbsMap'[j] = Present
                      /\ Putting(j) => Putting(j)' \/ (Binds(p) /\ j = k)
  BY StoreMap
<1>3. ASSUME NEW j \in Keys, AbsMap'[j] = Present, ~ (Binds(p) /\ j = k) PROVE AbsMap[j] = Present
  <2>1. PICK w \in Buckets : tbl'[w].hash = j
    BY <1>0, <1>3, HasEntryNext
  <2>2. ~ Putting(j)'
    BY <1>0, <1>3, PuttingIsNext
  <2>3. PICK v \in Buckets : tbl[v].hash = j
    BY <1>0, <2>1, <2>2 DEF StoreKeeps
  <2> QED
    BY <1>0, <1>2, <1>3, <2>2, <2>3 DEF MapOfEntries
<1>4. ASSUME Binds(p) PROVE AbsMap[k] = None
  <2>1. Putting(k)
    BY <1>0, <1>4 DEF Putting, Binds, Effective
  <2> QED
    BY <1>0, <1>1, <2>1, PuttingIs
<1>5. ASSUME Unbinds(p) PROVE AbsMap[k] = Present
  <2>1. PICK w \in Buckets : tbl[w].hash = k
    BY <1>0, <1>5 DEF StoreKeeps
  <2>2. ~ Putting(k)
    <3> SUFFICES ASSUME NEW q \in Threads, pc[q] = "store", call[q].op = "put" PROVE FALSE
      BY DEF Putting
    <3>1. q = p
      BY <1>0, OneUpdates
    <3> QED
      BY <3>1, <1>5 DEF Unbinds
  <2> QED
    BY <1>0, <1>1, <2>1, <2>2 DEF MapOfEntries
<1>6. AbsMap = [j \in Keys |-> AbsMap[j]] /\ AbsMap' = [j \in Keys |-> AbsMap'[j]]
  BY DEF AbsMap
<1>7. ~ (Binds(p) /\ Unbinds(p))
  BY DEF Binds, Unbinds
<1> DEFINE m == AbsMap
<1>8. \A j \in Keys : /\ j # k => m'[j] = m[j]
                      /\ ~ Binds(p) /\ ~ Unbinds(p) => m'[j] = m[j]
  BY <1>2, <1>3
<1>9. /\ Binds(p) => m[k] = None /\ m'[k] = Present
      /\ Unbinds(p) => m[k] = Present /\ m'[k] = None
  BY <1>1, <1>2, <1>4, <1>5
<1>10. m = [j \in Keys |-> m[j]] /\ m' = [j \in Keys |-> m'[j]]
  BY <1>6
<1> HIDE DEF m
<1>11. /\ Binds(p) => m[k] = None /\ m' = [m EXCEPT ![k] = Present]
       /\ Unbinds(p) => m[k] = Present /\ m' = [m EXCEPT ![k] = None]
       /\ ~ Binds(p) /\ ~ Unbinds(p) => m' = m
  BY <1>1, <1>8, <1>9, <1>10
<1> QED
  BY <1>11 DEF m

LEMMA AnswersInitially == Init => AnswersInv
<1> SUFFICES ASSUME Init PROVE AnswersInv
  OBVIOUS
<1>1. /\ \A p \in Threads : pc[p] = "idle" /\ ret[p] = None
      /\ \A w \in Buckets : tbl[w].hash = None
  BY DEF Init
<1>2. KeysMatch
  BY <1>1 DEF KeysMatch
<1>3. MapOfEntries
  BY <1>1, KeysAssumption DEF MapOfEntries, None
<1>4. SeenNow
  BY <1>1 DEF SeenNow
<1>5. \A p \in Threads : WriterOK(p) /\ ReaderOK(p)
  BY <1>1 DEF WriterOK, ReaderOK
<1> QED
  BY <1>2, <1>3, <1>4, <1>5 DEF AnswersInv

LEMMA AnswersStutter ==
  ASSUME AnswersInv, UNCHANGED vars
  PROVE  AnswersInv' /\ AbsMap' = AbsMap
<1>1. UNCHANGED <<aligned, tbl, lock, pc, call, at, stale, stores, ret, seen>>
  BY DEF vars, table, locals
<1>2. AbsMap' = AbsMap
  BY <1>1 DEF AbsMap, Members, List, Walk
<1>3. KeysMatch' /\ MapOfEntries' /\ SeenNow'
  BY <1>1, <1>2 DEF AnswersInv, KeysMatch, MapOfEntries, SeenNow, Putting, Key
<1>4. \A p \in Threads : WriterOK(p)'
  <2> SUFFICES ASSUME NEW p \in Threads PROVE WriterOK(p)'
    OBVIOUS
  <2>1. WriterOK(p)
    BY DEF AnswersInv
  <2> QED
    BY <2>1, <1>1 DEF WriterOK, PutStage, RemoveStage, MoveStage, Apart, Links, Left, Key
<1>5. \A p \in Threads : ReaderOK(p)'
  <2> SUFFICES ASSUME NEW p \in Threads PROVE ReaderOK(p)'
    OBVIOUS
  <2>1. ReaderOK(p)
    BY DEF AnswersInv
  <2> QED
    BY <2>1, <1>1 DEF ReaderOK, Meets, Closed, Putting, Key
<1> QED
  BY <1>2, <1>3, <1>4, <1>5 DEF AnswersInv

LEMMA AnswersStep ==
  ASSUME IndInv, AnswersInv, [Next]_vars
  PROVE  AnswersInv'
<1>1. CASE UNCHANGED vars
  BY <1>1, AnswersStutter
<1>2. CASE Next
  BY <1>2, InvokeAnswers, ReturnAnswers, ReadAnswers, PutAnswers, RemoveAnswers, StoreAnswers,
     MoveAnswers, UnlockAnswers DEF Next, Work
<1> QED
  BY <1>1, <1>2

(* What the calls read and are about to store is always in line with the    *)
(* map.                                                                     *)
THEOREM AnswersInvariance == Spec => []AnswersInv
<1> QED
  BY Initially, AnswersInitially, Step, AnswersStep, PTL DEF Spec

-----------------------------------------------------------------------------
(* The calls of the abstract map.                                           *)
StageMap == [p \in Threads |-> Stage(p)]

(* What is watched is watched for every call, and a put puts the one value  *)
(* there is.                                                                *)
CallsTell ==
  /\ seen = [p \in Threads |-> seen[p]]
  /\ \A p \in Threads : /\ call[p] = Idle => seen[p] = {}
                        /\ call[p].op = "put" => call[p].val = Present

LEMMA SameCalls ==
  ASSUME NEW p \in Threads, putIfAbsent(p) \/ remove(p) \/ containsKey(p) \/ Store(p)
                             \/ optimize_cacheline_use(p) \/ Unlock(p)
  PROVE  call' = call
BY DEF putIfAbsent, remove, containsKey, Stamp, ReadFirst, ReadHash, ReadKey, ReadNext, CheckStamp,
       Store, optimize_cacheline_use, Unlock, locals

LEMMA CallsTellStep ==
  ASSUME IndInv, CallsTell, [Next]_vars
  PROVE  CallsTell'
<1>1. CASE UNCHANGED vars
  BY <1>1 DEF CallsTell, vars
<1>2. CASE Next
  <2>1. Watch /\ call \in [Threads -> Calls \cup {Idle}]
    BY <1>2 DEF Next, IndInv, TypeOK
  <2>2. seen' = [p \in Threads |-> seen'[p]] /\ \A p \in Threads : call'[p] = Idle => seen'[p] = {}
    BY <2>1 DEF Watch
  <2>3. ASSUME NEW p \in Threads, call'[p].op = "put" PROVE call'[p].val = Present
    <3>1. PICK q \in Threads : Invoke(q) \/ Work(q)
      BY <1>2 DEF Next
    <3>2. CASE Invoke(q)
      <4>1. PICK c \in Calls : /\ c.val = IF c.op = "put" THEN Present ELSE None
                               /\ call' = [call EXCEPT ![q] = c]
        BY <3>2 DEF Invoke
      <4>2. \A r \in Threads : call'[r] = IF r = q THEN c ELSE call[r]
        BY <4>1, <2>1
      <4> QED
        BY <4>1, <4>2, <2>3 DEF CallsTell
    <3>3. CASE Return(q)
      <4>1. \A r \in Threads : call'[r] = IF r = q THEN Idle ELSE call[r]
        BY <3>3, <2>1 DEF Return
      <4> QED
        BY <4>1, <2>3 DEF CallsTell, Idle
    <3>4. CASE Work(q) /\ ~ Return(q)
      <4>1. call' = call
        BY <3>4, SameCalls DEF Work
      <4> QED
        BY <4>1, <2>3 DEF CallsTell
    <3> QED
      BY <3>1, <3>2, <3>3, <3>4
  <2> QED
    BY <2>2, <2>3 DEF CallsTell
<1> QED
  BY <1>1, <1>2

LEMMA CallsInvariance == Spec => []CallsTell
<1>1. Init => CallsTell
  BY DEF Init, CallsTell, Idle
<1> QED
  BY <1>1, CallsTellStep, Invariance, PTL DEF Spec

LEMMA KVWatch == Watch => KV!Watch
BY DEF Watch, KV!Watch, KV!Idle, Idle, KV!None, None

LEMMA StageIs ==
  ASSUME NEW p \in Threads
  PROVE  /\ pc[p] \in {"idle", "done"} => Stage(p) = pc[p]
         /\ pc[p] \in {"store", "move"} /\ ret[p] # None => Stage(p) = "applied"
         /\ pc[p] \in {"store", "move"} /\ ret[p] = None => Stage(p) = "open"
         /\ pc[p] \notin {"idle", "done", "store", "move"} => Stage(p) = "open"
BY DEF Stage

LEMMA StageIsNext ==
  ASSUME NEW p \in Threads
  PROVE  /\ pc'[p] \in {"idle", "done"} => Stage(p)' = pc'[p]
         /\ pc'[p] \in {"store", "move"} /\ ret'[p] # None => Stage(p)' = "applied"
         /\ pc'[p] \in {"store", "move"} /\ ret'[p] = None => Stage(p)' = "open"
         /\ pc'[p] \notin {"idle", "done", "store", "move"} => Stage(p)' = "open"
BY DEF Stage

LEMMA StageMoves ==
  ASSUME NEW p \in Threads, \A q \in Threads \ {p} : pc'[q] = pc[q] /\ ret'[q] = ret[q]
  PROVE  StageMap[p] = Stage(p) /\ StageMap' = [StageMap EXCEPT ![p] = Stage(p)']
<1>1. \A q \in Threads \ {p} : Stage(q)' = Stage(q)
  BY DEF Stage
<1> QED
  BY <1>1 DEF StageMap

(* A step that shows nowhere in the map.                                    *)
LEMMA Unseen ==
  ASSUME IndInv, AnswersInv, CallsTell, Watch, AbsMap' = AbsMap, call' = call, ret' = ret,
         NEW p \in Threads, \A q \in Threads \ {p} : pc'[q] = pc[q], Stage(p)' = Stage(p)
  PROVE  UNCHANGED KV!kvVars
<1>1. StageMap' = StageMap
  BY StageMoves DEF StageMap
<1>2. \A q \in Threads : seen'[q] = seen[q]
  <2> SUFFICES ASSUME NEW q \in Threads PROVE seen'[q] = seen[q]
    OBVIOUS
  <2>1. seen'[q] = IF call[q] = Idle THEN {} ELSE seen[q] \cup {AbsMap[call[q].key]}
    BY DEF Watch
  <2>2. CASE call[q] = Idle
    BY <2>1, <2>2 DEF CallsTell
  <2>3. CASE call[q] # Idle
    <3>1. AbsMap[call[q].key] \in seen[q]
      BY <2>3 DEF AnswersInv, SeenNow, IndInv, ThreadOK, Key
    <3> QED
      BY <2>1, <2>3, <3>1
  <2> QED
    BY <2>2, <2>3
<1>3. seen' = [q \in Threads |-> seen'[q]]
  BY DEF Watch
<1>4. seen' = seen
  BY <1>2, <1>3 DEF CallsTell
<1> QED
  BY <1>1, <1>4 DEF KV!kvVars, StageMap

LEMMA InvokeImplements ==
  ASSUME IndInv, AnswersInv, NEW p \in Threads, Invoke(p), AbsMap' = AbsMap
  PROVE  KV!KVInvoke(p)
<1>1. PICK c \in Calls : /\ call' = [call EXCEPT ![p] = c]
                         /\ Goto(p, IF c.op = "get" THEN "stamp" ELSE "lock")
  BY DEF Invoke
<1>2. pc[p] = "idle" /\ ret' = ret /\ pc \in [Threads -> Labels]
  BY DEF Invoke, locals, IndInv, TypeOK
<1>3. pc'[p] \in {"stamp", "lock"} /\ \A q \in Threads \ {p} : pc'[q] = pc[q] /\ ret'[q] = ret[q]
  BY <1>1, <1>2 DEF Goto
<1>4. StageMap[p] = "idle" /\ StageMap' = [StageMap EXCEPT ![p] = "open"]
  BY <1>2, <1>3, StageMoves, StageIs, StageIsNext
<1>5. c \in KV!Calls
  BY DEF Calls, KV!Calls, KV!None, None
<1> QED
  BY <1>1, <1>2, <1>4, <1>5 DEF KV!KVInvoke, StageMap

LEMMA ReturnImplements ==
  ASSUME IndInv, AnswersInv, NEW p \in Threads, Return(p), AbsMap' = AbsMap
  PROVE  KV!KVReturn(p)
<1>1. /\ pc[p] = "done" /\ Goto(p, "idle") /\ pc \in [Threads -> Labels]
      /\ call' = [call EXCEPT ![p] = Idle] /\ ret' = [ret EXCEPT ![p] = None]
      /\ ret \in [Threads -> Vals \cup {None}]
  BY DEF Return, IndInv, TypeOK
<1>2. pc'[p] = "idle" /\ \A q \in Threads \ {p} : pc'[q] = pc[q] /\ ret'[q] = ret[q]
  BY <1>1 DEF Goto
<1>3. StageMap[p] = "done" /\ StageMap' = [StageMap EXCEPT ![p] = "idle"]
  BY <1>1, <1>2, StageMoves, StageIs, StageIsNext
<1>4. KV!Idle = Idle /\ KV!None = None
  BY DEF KV!Idle, Idle, KV!None, None
<1> QED
  BY <1>1, <1>3, <1>4 DEF KV!KVReturn, StageMap

(* A call ends with an answer that the map justified.                       *)
LEMMA AnswerImplements ==
  ASSUME IndInv, NEW p \in Threads, AbsMap' = AbsMap, call' = call,
         \A q \in Threads \ {p} : pc'[q] = pc[q], pc'[p] = "done", Stage(p) = "open",
         NEW r \in {None, Present}, ret' = [ret EXCEPT ![p] = r], KV!Justified(p, r)
  PROVE  KV!KVAnswer(p)
<1>1. ret \in [Threads -> Vals \cup {None}]
  BY DEF IndInv, TypeOK
<1>2. \A q \in Threads \ {p} : ret'[q] = ret[q]
  BY <1>1
<1>3. StageMap[p] = "open" /\ StageMap' = [StageMap EXCEPT ![p] = "done"]
  BY <1>2, StageMoves, StageIsNext
<1>4. r \in Vals \cup {KV!None}
  BY DEF Vals, KV!None, None
<1> QED
  BY <1>3, <1>4 DEF KV!KVAnswer, StageMap

LEMMA ReadImplements ==
  ASSUME IndInv, AnswersInv, CallsTell, Watch, UNCHANGED aligned, NEW p \in Threads, containsKey(p)
  PROVE  KV!KVAnswer(p) \/ UNCHANGED KV!kvVars \/ Early(p)
<1>1. /\ call' = call /\ AbsMap' = AbsMap /\ ReaderOK(p) /\ WriterOK(p)
      /\ pc \in [Threads -> Labels] /\ ret \in [Threads -> Vals \cup {None}]
  BY SameCalls, ReadAnswers DEF AnswersInv, IndInv, TypeOK
<1>2. pc[p] \in {"stamp", "first", "hash", "key", "next", "check"}
  BY DEF containsKey, Stamp, ReadFirst, ReadHash, ReadKey, ReadNext, CheckStamp
<1>3. Stage(p) = "open" /\ call[p].op = "get" /\ ret[p] = None
  BY <1>1, <1>2, StageIs DEF ReaderOK, WriterOK
<1>4. \/ pc'[p] \in {"stamp", "first", "hash", "key", "next", "check"} /\ ret' = ret
      \/ pc[p] = "key" /\ pc'[p] = "done" /\ ret' = [ret EXCEPT ![p] = Present]
      \/ pc[p] = "check" /\ pc'[p] = "done" /\ ~ stale[p] /\ ret' = ret
  <2>1. CASE Stamp(p)
    BY <1>1, <2>1 DEF Stamp, Goto
  <2>2. CASE ReadFirst(p)
    BY <1>1, <2>2 DEF ReadFirst, GoOn, Goto
  <2>3. CASE ReadHash(p)
    BY <1>1, <2>3 DEF ReadHash, Goto, locals
  <2>4. CASE ReadKey(p)
    BY <1>1, <2>4 DEF ReadKey, Goto
  <2>5. CASE ReadNext(p)
    BY <1>1, <2>5 DEF ReadNext, GoOn, Goto
  <2>6. CASE CheckStamp(p)
    BY <1>1, <2>6 DEF CheckStamp, Goto, locals
  <2> QED
    BY <2>1, <2>2, <2>3, <2>4, <2>5, <2>6 DEF containsKey
<1>5. \A q \in Threads \ {p} : pc'[q] = pc[q]
  BY <1>1 DEF containsKey, Stamp, ReadFirst, ReadHash, ReadKey, ReadNext, CheckStamp, GoOn, Goto
<1>6. CASE pc'[p] \in {"stamp", "first", "hash", "key", "next", "check"} /\ ret' = ret
  <2>1. Stage(p)' = "open"
    BY <1>6, StageIsNext
  <2> QED
    BY <1>1, <1>3, <1>5, <1>6, <2>1, Unseen
<1>7. CASE pc[p] = "key" /\ pc'[p] = "done" /\ ret' = [ret EXCEPT ![p] = Present]
  <2>1. CASE Present \in seen[p]
    <3>1. KV!Justified(p, Present)
      BY <1>3, <2>1 DEF KV!Justified
    <3> QED
      BY <1>1, <1>3, <1>5, <1>7, <3>1, AnswerImplements
  <2>2. CASE Present \notin seen[p]
    <3>1. Putting(Key(p))
      BY <1>1, <1>7, <2>2 DEF ReaderOK
    <3> QED
      BY <1>1, <1>7, <3>1 DEF Early, Putting
  <2> QED
    BY <2>1, <2>2
<1>8. CASE pc[p] = "check" /\ pc'[p] = "done" /\ ~ stale[p] /\ ret' = ret
  <2>1. None \in seen[p]
    BY <1>1, <1>8 DEF ReaderOK
  <2>2. KV!Justified(p, None)
    BY <1>3, <2>1 DEF KV!Justified
  <2>3. ret' = [ret EXCEPT ![p] = None]
    BY <1>1, <1>3, <1>8
  <2> QED
    BY <1>1, <1>3, <1>5, <1>8, <2>2, <2>3, AnswerImplements
<1> QED
  BY <1>4, <1>6, <1>7, <1>8

LEMMA PutImplements ==
  ASSUME IndInv, AnswersInv, CallsTell, Watch, UNCHANGED aligned, NEW p \in Threads, putIfAbsent(p)
  PROVE  KV!KVAnswer(p) \/ UNCHANGED KV!kvVars
<1>0. /\ pc[p] = "lock" /\ call[p].op = "put" /\ lock = None /\ UNCHANGED <<tbl, call, ret>>
      /\ pc \in [Threads -> Labels] /\ tbl \in [Buckets -> Records] /\ SoundTable(tbl)
      /\ ret \in [Threads -> Vals \cup {None}] /\ AbsMap' = AbsMap /\ SeenNow /\ WriterOK(p)
  BY PutAnswers DEF putIfAbsent, CanLock, IndInv, TypeOK, AnswersInv
<1> PICK k \in Keys : k = Key(p)
  BY <1>0, KeyIs DEF IndInv
<1>1. ret[p] = None /\ Stage(p) = "open" /\ AbsMap[k] \in seen[p]
  BY <1>0, StageIs DEF WriterOK, SeenNow
<1>2. /\ \A q \in Threads \ {p} : pc'[q] = pc[q]
      /\ pc'[p] \in {"store", "exit"} \/ (pc'[p] = "done" /\ Find(Home[k], k) # {})
  BY <1>0 DEF putIfAbsent, Goto
<1>3. CASE pc'[p] \in {"store", "exit"}
  <2>1. Stage(p)' = "open"
    BY <1>0, <1>1, <1>3, StageIsNext
  <2> QED
    BY <1>0, <1>1, <1>2, <2>1, Unseen
<1>4. CASE pc'[p] = "done" /\ Find(Home[k], k) # {}
  <2>1. PICK n \in 1..Len(List(Home[k])) : tbl[List(Home[k])[n]].hash = k
    BY <1>4 DEF Find
  <2>2. AbsMap[k] = Present
    BY <2>1 DEF AbsMap, Members
  <2>3. KV!Justified(p, None)
    BY <1>0, <1>1, <2>2 DEF KV!Justified, KV!None, None, Vals
  <2>4. ret' = [ret EXCEPT ![p] = None]
    BY <1>0, <1>1
  <2> QED
    BY <1>0, <1>1, <1>2, <1>4, <2>3, <2>4, AnswerImplements
<1> QED
  BY <1>2, <1>3, <1>4

LEMMA RemoveImplements ==
  ASSUME IndInv, AnswersInv, CallsTell, Watch, UNCHANGED aligned, NEW p \in Threads, remove(p)
  PROVE  KV!KVAnswer(p) \/ UNCHANGED KV!kvVars
<1>0. /\ pc[p] = "lock" /\ call[p].op = "remove" /\ lock = None /\ UNCHANGED <<tbl, call, ret>>
      /\ pc \in [Threads -> Labels] /\ tbl \in [Buckets -> Records] /\ SoundTable(tbl)
      /\ ret \in [Threads -> Vals \cup {None}] /\ AbsMap' = AbsMap /\ SeenNow /\ WriterOK(p)
  BY RemoveAnswers DEF remove, CanLock, IndInv, TypeOK, AnswersInv
<1> PICK k \in Keys : k = Key(p)
  BY <1>0, KeyIs DEF IndInv
<1>1. ret[p] = None /\ Stage(p) = "open" /\ AbsMap[k] \in seen[p]
  BY <1>0, StageIs DEF WriterOK, SeenNow
<1>2. /\ \A q \in Threads \ {p} : pc'[q] = pc[q]
      /\ pc'[p] = "store" \/ (pc'[p] = "done" /\ Find(Home[k], k) = {})
  BY <1>0 DEF remove, Goto
<1>3. CASE pc'[p] = "store"
  <2>1. Stage(p)' = "open"
    BY <1>0, <1>1, <1>3, StageIsNext
  <2> QED
    BY <1>0, <1>1, <1>2, <2>1, Unseen
<1>4. CASE pc'[p] = "done" /\ Find(Home[k], k) = {}
  <2>1. AbsMap[k] = None
    BY <1>4 DEF AbsMap, Members, Find
  <2>3. KV!Justified(p, None)
    BY <1>0, <1>1, <2>1 DEF KV!Justified, KV!None, None
  <2>4. ret' = [ret EXCEPT ![p] = None]
    BY <1>0, <1>1
  <2> QED
    BY <1>0, <1>1, <1>2, <1>4, <2>3, <2>4, AnswerImplements
<1> QED
  BY <1>2, <1>3, <1>4

(* A remove has its effect with its first store.                            *)
LEMMA UnbindsFirst ==
  ASSUME NEW p \in Threads, RemoveStage(p), Head(stores[p]).field = "hash"
  PROVE  ret[p] = None
<1> SUFFICES ASSUME ret[p] = Present PROVE FALSE
  BY DEF RemoveStage, Present, None
<1>1. PICK y, b \in Buckets, f \in LinkFields :
        \E n : \/ stores[p] = <<Set(y, "key", None), Set(b, f, n), StampStore, Set(y, "next", NoBucket)>>
               \/ stores[p] = <<Set(b, f, n), StampStore, Set(y, "next", NoBucket)>>
               \/ stores[p] = <<StampStore, Set(y, "next", NoBucket)>>
               \/ stores[p] = <<Set(y, "next", NoBucket)>>
  BY DEF RemoveStage, Present, None
<1>2. PICK n :
        \/ stores[p] = <<Set(y, "key", None), Set(b, f, n), StampStore, Set(y, "next", NoBucket)>>
        \/ stores[p] = <<Set(b, f, n), StampStore, Set(y, "next", NoBucket)>>
        \/ stores[p] = <<StampStore, Set(y, "next", NoBucket)>>
        \/ stores[p] = <<Set(y, "next", NoBucket)>>
  BY <1>1
<1>3. Head(stores[p]) \in {Set(y, "key", None), Set(b, f, n), StampStore, Set(y, "next", NoBucket)}
  BY <1>2
<1> QED
  BY <1>3 DEF Set, StampStore, LinkFields

LEMMA StoreImplements ==
  ASSUME IndInv, AnswersInv, CallsTell, Watch, UNCHANGED aligned, NEW p \in Threads, Store(p)
  PROVE  KV!KVApply(p) \/ UNCHANGED KV!kvVars
<1>0. /\ pc[p] \in {"store", "move"} /\ stores[p] # << >> /\ UNCHANGED <<pc, call>> /\ WriterOK(p)
      /\ ret \in [Threads -> Vals \cup {None}] /\ Present # None
  BY DEF Store, IndInv, TypeOK, AnswersInv, Present, None
<1> PICK k \in Keys : k = Key(p)
  BY <1>0, KeyIs DEF IndInv
<1>1. ret' = IF Effective(p) THEN [ret EXCEPT ![p] = Present] ELSE ret
  BY <1>0 DEF Store
<1>2. \A q \in Threads \ {p} : pc'[q] = pc[q] /\ ret'[q] = ret[q]
  BY <1>0, <1>1
<1>3. /\ Binds(p) => AbsMap[k] = None /\ AbsMap' = [AbsMap EXCEPT ![k] = Present]
      /\ Unbinds(p) => AbsMap[k] = Present /\ AbsMap' = [AbsMap EXCEPT ![k] = None]
      /\ ~ Binds(p) /\ ~ Unbinds(p) => AbsMap' = AbsMap
  BY StoreEffect
<1>4. Effective(p) => Binds(p) \/ Unbinds(p)
  BY <1>0 DEF Effective, Binds, Unbinds, WriterOK
<1>5. CASE ~ Effective(p)
  <2>1. ret' = ret /\ AbsMap' = AbsMap
    BY <1>1, <1>3, <1>5 DEF Binds, Unbinds
  <2>2. Stage(p)' = Stage(p)
    BY <1>0, <2>1 DEF Stage
  <2> QED
    BY <1>0, <2>1, <2>2, Unseen
<1>6. CASE Effective(p)
  <2>1. pc[p] = "store" /\ ret[p] = None
    <3>1. CASE Binds(p)
      BY <1>0, <3>1 DEF Binds, Effective, WriterOK
    <3>2. CASE Unbinds(p)
      <4>1. pc[p] = "store" /\ call[p].op = "remove" /\ Head(stores[p]).field = "hash"
        BY <3>2 DEF Unbinds, Effective
      <4>2. RemoveStage(p)
        BY <1>0, <4>1 DEF WriterOK
      <4> QED
        BY <4>1, <4>2, UnbindsFirst
    <3> QED
      BY <1>4, <1>6, <3>1, <3>2
  <2>2. ret' = [ret EXCEPT ![p] = Present] /\ ret'[p] = Present
    BY <1>0, <1>1, <1>6
  <2>3. StageMap[p] = "open" /\ StageMap' = [StageMap EXCEPT ![p] = "applied"]
    BY <1>0, <1>2, <2>1, <2>2, StageMoves, StageIs, StageIsNext
  <2>4. CASE Binds(p)
    <3>1. call[p].op = "put" /\ call[p].val = Present /\ call[p].key = k
      BY <2>4 DEF Binds, CallsTell, Key
    <3> QED
      BY <1>0, <1>3, <2>2, <2>3, <2>4, <3>1 DEF KV!KVApply, StageMap, KV!None, None
  <2>5. CASE Unbinds(p)
    <3>1. call[p].op = "remove" /\ call[p].key = k
      BY <2>5 DEF Unbinds, Key
    <3> QED
      BY <1>0, <1>3, <2>2, <2>3, <2>5, <3>1 DEF KV!KVApply, StageMap, KV!None, None
  <2> QED
    BY <1>4, <1>6, <2>4, <2>5
<1> QED
  BY <1>5, <1>6

(* With its stores done an update has taken effect.                         *)
LEMMA DoneTells ==
  ASSUME AnswersInv, NEW p \in Threads, pc[p] \in {"store", "move"}, stores[p] = << >>
  PROVE  ret[p] = Present /\ Stage(p) = "applied"
<1>1. ret[p] = Present
  <2>1. WriterOK(p)
    BY DEF AnswersInv
  <2>2. ~ RemoveStage(p) /\ ~ PutStage(p)
    BY DEF RemoveStage, PutStage
  <2> QED
    BY <2>1, <2>2 DEF WriterOK
<1> QED
  BY <1>1, StageIs DEF Present, None

LEMMA MoveImplements ==
  ASSUME IndInv, AnswersInv, CallsTell, Watch, UNCHANGED aligned, NEW p \in Threads, optimize_cacheline_use(p)
  PROVE  UNCHANGED KV!kvVars
<1>0. /\ pc[p] = "store" /\ stores[p] = << >> /\ Goto(p, "move") /\ pc \in [Threads -> Labels]
      /\ call' = call /\ ret' = ret /\ AbsMap' = AbsMap
  BY MoveAnswers DEF optimize_cacheline_use, IndInv, TypeOK
<1>1. pc'[p] = "move" /\ \A q \in Threads \ {p} : pc'[q] = pc[q]
  BY <1>0 DEF Goto
<1>2. ret[p] = Present /\ Stage(p) = "applied"
  BY <1>0, DoneTells
<1>3. Stage(p)' = "applied"
  BY <1>0, <1>1, <1>2, StageIsNext DEF Present, None
<1> QED
  BY <1>0, <1>1, <1>2, <1>3, Unseen

LEMMA UnlockImplements ==
  ASSUME IndInv, AnswersInv, Watch, UNCHANGED aligned, NEW p \in Threads, Unlock(p)
  PROVE  KV!KVAnswer(p)
<1>0. /\ pc[p] \in {"store", "move"} /\ stores[p] = << >> /\ Goto(p, "done") /\ pc \in [Threads -> Labels]
      /\ call' = call /\ ret' = ret /\ AbsMap' = AbsMap
  BY UnlockAnswers DEF Unlock, locals, IndInv, TypeOK
<1>1. pc'[p] = "done" /\ \A q \in Threads \ {p} : pc'[q] = pc[q] /\ ret'[q] = ret[q]
  BY <1>0 DEF Goto
<1>2. StageMap[p] = "applied" /\ StageMap' = [StageMap EXCEPT ![p] = "done"]
  BY <1>0, <1>1, DoneTells, StageMoves, StageIsNext
<1> QED
  BY <1>0, <1>2 DEF KV!KVAnswer, StageMap

LEMMA StartImplements == Init => KV!KVInit
<1> SUFFICES ASSUME Init PROVE KV!KVInit
  OBVIOUS
<1>1. tbl \in [Buckets -> Records] /\ \A k \in Keys : AbsMap[k] \in {None, Present}
  BY Initially, MapMeets DEF IndInv, TypeOK
<1>2. \A k \in Keys : AbsMap[k] = None
  <2> SUFFICES ASSUME NEW k \in Keys, AbsMap[k] = Present PROVE FALSE
    BY <1>1
  <2>1. PICK w \in Buckets : tbl[w].hash = k
    BY Initially, HasEntry
  <2> QED
    BY <2>1, KeysAssumption DEF Init, None
<1>3. AbsMap = [k \in Keys |-> AbsMap[k]]
  BY DEF AbsMap
<1>4. AbsMap = [k \in Keys |-> None]
  BY <1>2, <1>3
<1>5. StageMap = [p \in Threads |-> "idle"]
  BY StageIs DEF StageMap, Init
<1> QED
  BY <1>4, <1>5 DEF Init, KV!KVInit, StageMap, KV!Idle, Idle, KV!None, None

(* A put or remove is one of an atomic map, whatever the readers do; a      *)
(* containsKey says that a key is missing only if it was at some time,      *)
(* although entries are moved under it, and that it is there if it was or   *)
(* a put is about to link it.                                               *)
THEOREM IsAtomicMapOrEarly == Spec => LinearizableOrEarly
<1>1. IndInv /\ AnswersInv /\ CallsTell /\ [Next]_vars
        => [KV!KVNext \/ UNCHANGED KV!kvVars \/ \E p \in Threads : Early(p)]_vars
  <2> SUFFICES ASSUME IndInv, AnswersInv, CallsTell, Next
               PROVE  KV!KVNext \/ UNCHANGED KV!kvVars \/ \E p \in Threads : Early(p)
    OBVIOUS
  <2>1. PICK p \in Threads : Invoke(p) \/ Work(p)
    BY DEF Next
  <2>2. UNCHANGED aligned /\ Watch /\ KV!Watch
    BY KVWatch DEF Next
  <2>3. \/ KV!KVInvoke(p) \/ KV!KVApply(p) \/ KV!KVAnswer(p) \/ KV!KVReturn(p)
        \/ UNCHANGED KV!kvVars \/ Early(p)
    <3>1. CASE Invoke(p)
      BY <2>2, <3>1, InvokeAnswers, InvokeImplements
    <3>2. CASE Return(p)
      BY <2>2, <3>2, ReturnAnswers, ReturnImplements
    <3>3. CASE Work(p) /\ ~ Return(p)
      BY <2>2, <3>3, ReadImplements, PutImplements, RemoveImplements, StoreImplements, MoveImplements,
         UnlockImplements DEF Work
    <3> QED
      BY <2>1, <3>1, <3>2, <3>3
  <2> QED
    BY <2>2, <2>3 DEF KV!KVNext
<1> QED
  BY <1>1, StartImplements, Invariance, AnswersInvariance, CallsInvariance, PTL DEF Spec, LinearizableOrEarly
===============================================================================
