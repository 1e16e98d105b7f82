---------------------------- MODULE MCClhtLfRes ----------------------------
(* Instances of ClhtLfRes for TLC.                                          *)
EXTENDS ClhtLfRes, TLC

CONSTANTS t1, t2

Two == {t1, t2}

(* Two threads that call everything, or that share it out.                  *)
AllOps == [t \in Two |-> {"put", "get", "remove"}]
Shared == (t1 :> {"put", "get"}) @@ (t2 :> {"put", "remove"})
=============================================================================
