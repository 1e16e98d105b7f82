---------------------------- MODULE MCHopscotch ----------------------------
(* Instances of Hopscotch for TLC.                                          *)
EXTENDS Hopscotch, TLC

CONSTANTS t1, t2

Two == {t1, t2}

(* Both update and one of them reads.                                       *)
Shared == (t1 :> {"put", "get", "remove"}) @@ (t2 :> {"put", "remove"})

(* Three keys whose homes are in the middle one of three cache lines.      *)
HomeOf == [k \in Keys |-> <<2, 2, 3>>[k]]
=============================================================================
