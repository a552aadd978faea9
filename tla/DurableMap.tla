----------------------------- MODULE DurableMap -----------------------------
(***************************************************************************)
(* What the engine relies on when it writes to its store: a map that comes  *)
(* back after a restart with every acknowledged write in it.  A write that  *)
(* was offered and neither acknowledged nor overtaken may come back or not, *)
(* and if it came back once it may be gone after the next restart.          *)
(* FileStore shows that internal/store/file.go implements this.             *)
(***************************************************************************)
CONSTANTS Keys, Values, None, Down

VARIABLES
    mem,    \* the map while the store is open, Down otherwise
    may     \* may[k]: what a restart may find under k

Held == Values \union {None}

MapInit ==
    /\ mem = [k \in Keys |-> None]
    /\ may = [k \in Keys |-> {None}]

\* A write of v, or with None a deletion, is on its way to the disk.
Offer(k, v) ==
    /\ mem # Down
    /\ may' = [may EXCEPT ![k] = @ \union {v}]
    /\ UNCHANGED mem

\* It has arrived: from here on a restart finds it and nothing else.
Land(k, v) ==
    /\ mem # Down
    /\ v \in may[k]
    /\ may' = [may EXCEPT ![k] = {v}]
    /\ UNCHANGED mem

\* Readers see it, and never before it has arrived.
Show(k, v) ==
    /\ mem # Down
    /\ may[k] = {v}
    /\ mem' = [mem EXCEPT ![k] = v]
    /\ UNCHANGED may

GoDown ==
    /\ mem # Down
    /\ mem' = Down
    /\ UNCHANGED may

ComeUp ==
    /\ mem = Down
    /\ mem' \in [Keys -> Held]
    /\ \A k \in Keys : mem'[k] \in may[k]
    /\ UNCHANGED may

MapNext ==
    \/ \E k \in Keys, v \in Held : Offer(k, v) \/ Land(k, v) \/ Show(k, v)
    \/ GoDown
    \/ ComeUp

MapSpec == MapInit /\ [][MapNext]_<<mem, may>>
=============================================================================
