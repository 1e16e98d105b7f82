------------------------------- MODULE KVMap -------------------------------
(***************************************************************************)
(* What every hash table of the benchmark promises to the threads that     *)
(* call it: one map from keys to values, changed atomically.  A successful *)
(* put or remove takes effect at one instant between its call and its      *)
(* return; a get, a refused put and a failed remove change nothing and are *)
(* right if the map justified their answer at some instant in between.  (A *)
(* call that changes nothing can always be ordered at that instant, so     *)
(* this is linearizability.)                                               *)
(*                                                                         *)
(* The interface is the one the CLHT variants share: clht_put returns true *)
(* or false, clht_get and clht_remove return the value, or 0 for none.     *)
(***************************************************************************)
EXTENDS Naturals

CONSTANTS
  Threads,   \* the threads that call the table
  Keys,      \* the keys they use
  Vals       \* the values they store, never 0

None == 0    \* no value

VARIABLES
  map,       \* the contents: key -> value or None
  call,      \* the call of each thread
  stage,     \* where the call is: idle, open, applied (took effect), done
  res,       \* its result once applied or done
  seen       \* the values its key had since it was made

kvVars == <<map, call, stage, res, seen>>

Calls == [op : {"put", "get", "remove"}, key : Keys, val : Vals \cup {None}]
Idle  == [op |-> "idle", key |-> None, val |-> None]

(* Types; a thread is idle exactly when it has no call.                     *)
KVTypeOK ==
  /\ map \in [Keys -> Vals \cup {None}]
  /\ call \in [Threads -> Calls \cup {Idle}]
  /\ stage \in [Threads -> {"idle", "open", "applied", "done"}]
  /\ res \in [Threads -> Vals \cup {None}]
  /\ seen \in [Threads -> SUBSET (Vals \cup {None})]
  /\ \A p \in Threads : stage[p] = "idle" <=> call[p] = Idle

KVInit ==
  /\ map = [k \in Keys |-> None]
  /\ call = [p \in Threads |-> Idle]
  /\ stage = [p \in Threads |-> "idle"]
  /\ res = [p \in Threads |-> None]
  /\ seen = [p \in Threads |-> {}]

(* Every call watches the map at its own key.                               *)
Watch ==
  seen' = [p \in Threads |->
             IF call'[p] = Idle THEN {}
             ELSE IF call[p] = Idle THEN {map'[call'[p].key]}
             ELSE seen[p] \cup {map'[call[p].key]}]

KVInvoke(p) ==
  /\ stage[p] = "idle"
  /\ stage' = [stage EXCEPT ![p] = "open"]
  /\ \E c \in Calls : call' = [call EXCEPT ![p] = c]
  /\ UNCHANGED <<map, res>>

(* The step at which a call changes the map.  A put binds an absent key,    *)
(* its result is true, for which the value it stored stands; a remove       *)
(* unbinds a present key, its result is the value the key had.  The call    *)
(* may be done with it, or have work left that shows nowhere in the map.    *)
KVApply(p) ==
  /\ stage[p] = "open"
  /\ \E s \in {"applied", "done"} : stage' = [stage EXCEPT ![p] = s]
  /\ LET k == call[p].key
     IN  \/ /\ call[p].op = "put" /\ map[k] = None
            /\ map' = [map EXCEPT ![k] = call[p].val]
            /\ res' = [res EXCEPT ![p] = call[p].val]
         \/ /\ call[p].op = "remove" /\ map[k] # None
            /\ map' = [map EXCEPT ![k] = None]
            /\ res' = [res EXCEPT ![p] = map[k]]
  /\ UNCHANGED call

(* The results a call may give that does not change the map.                *)
Justified(p, r) ==
  \/ call[p].op = "get" /\ r \in seen[p]
  \/ call[p].op = "put" /\ r = None /\ seen[p] \cap Vals # {}
  \/ call[p].op = "remove" /\ r = None /\ None \in seen[p]

KVAnswer(p) ==
  /\ stage' = [stage EXCEPT ![p] = "done"]
  /\ \/ stage[p] = "applied" /\ UNCHANGED res
     \/ /\ stage[p] = "open"
        /\ \E r \in Vals \cup {None} :
             Justified(p, r) /\ res' = [res EXCEPT ![p] = r]
  /\ UNCHANGED <<map, call>>

KVReturn(p) ==
  /\ stage[p] = "done"
  /\ stage' = [stage EXCEPT ![p] = "idle"]
  /\ call' = [call EXCEPT ![p] = Idle]
  /\ res' = [res EXCEPT ![p] = None]
  /\ UNCHANGED map

KVNext ==
  /\ \E p \in Threads : KVInvoke(p) \/ KVApply(p) \/ KVAnswer(p) \/ KVReturn(p)
  /\ Watch

KVSpec == KVInit /\ [][KVNext]_kvVars
=============================================================================
