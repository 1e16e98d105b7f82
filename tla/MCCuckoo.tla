------------------------------ MODULE MCCuckoo ------------------------------
(* Instances of Cuckoo for TLC.                                             *)
EXTENDS Cuckoo, TLC

CONSTANTS t1, t2

Two == {t1, t2}

Ask(op, ks) == [op : {op}, key : ks, val : {None}]
Resize(ns)  == [op : {"rehash"}, key : {None}, val : ns]

(* The buckets of the keys 1 to 4 in a table of 4: 0/1, 2/3, 0/3 and 1/0.   *)
(* In one of 2 all share both.                                              *)
HashOf == [k \in Keys |-> <<{}, {1}, {}, {0, 2}>>[k]]
TagOf  == [k \in Keys |-> <<{0}, {0}, {0, 1}, {0}>>[k]]

(* One thread fills the table, the other one looks and removes.             *)
Fill == t1 :> Ask("put", {1, 2, 3, 4}) @@ t2 :> (Ask("remove", {3}) \cup Ask("get", {2}))
(* Both insert.                                                             *)
Duel == t1 :> Ask("put", {1, 2, 3}) @@ t2 :> (Ask("put", {3}) \cup Ask("remove", {1}))
(* The table is resized under an insert that looks for a path.              *)
Stale == t1 :> Ask("put", {1, 2, 3}) @@ t2 :> (Ask("remove", {1}) \cup Resize({2}))

(* The table has room and its size is changed by both.  None of these sizes *)
(* is beyond that of a doubling under way.                                  *)
Resizes == t1 :> (Ask("put", {1, 2}) \cup Resize({2})) @@
           t2 :> (Ask("get", {1}) \cup Resize({1}))

(* A rehash to a size beyond that of a doubling.                            *)
Overtaking == t1 :> Ask("put", {1, 2, 4}) @@ t2 :> Resize({3})

Overtaken == {Overtaking}
All == {Fill, Duel, Stale, Resizes}
=============================================================================
