---------------------------- MODULE MCClhtFixed ----------------------------
(* Instances of ClhtFixed for TLC.                                          *)
EXTENDS ClhtFixed, TLC

CONSTANTS t1, t2

Two == {t1, t2}

(* Two threads that call everything.                                        *)
AllOps == [t \in Two |-> {"put", "get", "remove"}]

Symmetry == Permutations(Threads)
=============================================================================
