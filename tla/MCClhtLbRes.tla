---------------------------- MODULE MCClhtLbRes ----------------------------
(* Instances of ClhtLbRes for TLC.                                          *)
EXTENDS ClhtLbRes, TLC

CONSTANTS t1, t2, t3

Two   == {t1, t2}
Three == {t1, t2, t3}

(* Two threads that call everything.                                        *)
AllOps == [t \in Two |-> {"put", "get", "remove"}]
(* A writer, a writer that also removes, and a reader.                      *)
OpsOfThree == (t1 :> {"put"}) @@ (t2 :> {"put", "remove"}) @@ (t3 :> {"get"})
(* Two writers: everything that happens is due to puts and resizes.         *)
PutsOnly == [t \in Two |-> {"put"}]
(* A writer that reads and a writer that removes.                           *)
ReadAndRemove == (t1 :> {"put", "get"}) @@ (t2 :> {"put", "remove"})

(* Threads that call the same functions are interchangeable.                *)
Symmetry == Permutations(Threads)
=============================================================================
