------------------------------ MODULE KeyLock ------------------------------
(***************************************************************************)
(* What the engine relies on when it calls keyedMutex.lock(key): for every  *)
(* key there is at most one worker whose turn it is, and a worker takes one *)
(* key at a time.  KeyedMutex shows that the reference-counted table of     *)
(* mutexes in internal/engine/queue.go implements this; Pipeline uses it.   *)
(***************************************************************************)
CONSTANTS Workers, Keys, Nobody

VARIABLE turn      \* turn[k]: the worker whose turn it is on key k, or Nobody

LockTypeOK == turn \in [Keys -> Workers \union {Nobody}]

LockInit == turn = [k \in Keys |-> Nobody]

\* A worker holding a key never asks for another one: process and
\* processDelete each take exactly one lock and never nest them.
Take(w, k) ==
    /\ turn[k] = Nobody
    /\ \A j \in Keys : turn[j] # w
    /\ turn' = [turn EXCEPT ![k] = w]

Drop(w, k) ==
    /\ turn[k] = w
    /\ turn' = [turn EXCEPT ![k] = Nobody]

LockNext == \E w \in Workers, k \in Keys : Take(w, k) \/ Drop(w, k)

LockSpec == LockInit /\ [][LockNext]_turn
=============================================================================
