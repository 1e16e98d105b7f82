------------------------------ MODULE MCClhtLf ------------------------------
(* Instances of ClhtLf for TLC.                                             *)
EXTENDS ClhtLf, TLC

CONSTANTS t1, t2

Two == {t1, t2}

(* Two threads that call everything.                                        *)
AllOps == [t \in Two |-> {"put", "get", "remove"}]
(* A writer, and a writer that also removes.                                *)
PutsAndRemoves == (t1 :> {"put"}) @@ (t2 :> {"put", "remove"})

(* Threads that call the same functions are interchangeable.                *)
Symmetry == Permutations(Threads)
=============================================================================
