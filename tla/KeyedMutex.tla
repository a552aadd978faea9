----------------------------- MODULE KeyedMutex -----------------------------
(***************************************************************************)
(* keyedMutex (internal/engine/queue.go): a table of mutexes, one per key   *)
(* in use, that is created on first use and dropped when the last user is   *)
(* done.  The table has its own lock (k.mu), so a section under k.mu is one *)
(* step; m.Lock() and m.Unlock() happen outside it and are steps of their   *)
(* own.  A mutex is a heap object: what matters is which object a worker    *)
(* got hold of, so objects have identities and one may be allocated again   *)
(* only when nothing refers to it any more.                                 *)
(***************************************************************************)
EXTENDS Naturals, FiniteSets

CONSTANTS Workers,     \* the goroutines of the pool (and Drain's caller)
          Keys,        \* lock keys: identity fingerprints and "ref ..." keys
          Mutexes,     \* heap cells a &sync.Mutex{} may be allocated in
          Nobody, NoMutex, NoKey

ASSUME NamesAssumption ==
    /\ Nobody \notin Workers
    /\ NoMutex \notin Mutexes
    /\ NoKey \notin Keys

ASSUME WorkersAssumption == IsFiniteSet(Workers)

VARIABLES
    held,     \* keyedMutex.held: the mutex in the table for a key
    count,    \* keyedMutex.count: how many workers use the key's mutex
    owner,    \* the worker that has a mutex locked
    pc,       \* where each worker is in lock / the returned unlock
    want,     \* the key a worker called lock with
    mine      \* the *sync.Mutex it took from the table

vars == <<held, count, owner, pc, want, mine>>

TypeOK ==
    /\ held \in [Keys -> Mutexes \union {NoMutex}]
    /\ count \in [Keys -> Nat]
    /\ owner \in [Mutexes -> Workers \union {Nobody}]
    /\ pc \in [Workers -> {"idle", "waiting", "holding", "released"}]
    /\ want \in [Workers -> Keys \union {NoKey}]
    /\ mine \in [Workers -> Mutexes \union {NoMutex}]

Init ==
    /\ held = [k \in Keys |-> NoMutex]
    /\ count = [k \in Keys |-> 0]
    /\ owner = [m \in Mutexes |-> Nobody]
    /\ pc = [w \in Workers |-> "idle"]
    /\ want = [w \in Workers |-> NoKey]
    /\ mine = [w \in Workers |-> NoMutex]

\* Memory the allocator may hand out: in no table entry, in no worker's hands.
Unreferenced(m) ==
    /\ \A k \in Keys : held[k] # m
    /\ \A w \in Workers : mine[w] # m

-----------------------------------------------------------------------------
(* lock(key), first half, under k.mu: find or create the mutex, count in.   *)
Register(w, k) ==
    /\ pc[w] = "idle"
    /\ \E m \in Mutexes :
         /\ IF held[k] = NoMutex THEN Unreferenced(m) ELSE m = held[k]
         /\ held' = [held EXCEPT ![k] = m]
         /\ mine' = [mine EXCEPT ![w] = m]
    /\ count' = [count EXCEPT ![k] = @ + 1]
    /\ want' = [want EXCEPT ![w] = k]
    /\ pc' = [pc EXCEPT ![w] = "waiting"]
    /\ UNCHANGED owner

(* lock(key), second half: m.Lock() returns.                                *)
Acquire(w) ==
    /\ pc[w] = "waiting"
    /\ owner[mine[w]] = Nobody
    /\ owner' = [owner EXCEPT ![mine[w]] = w]
    /\ pc' = [pc EXCEPT ![w] = "holding"]
    /\ UNCHANGED <<held, count, want, mine>>

\* Mutant: the mutex is not unlocked.
UnlockForgotten(w) ==
    /\ pc[w] = "holding"
    /\ pc' = [pc EXCEPT ![w] = "released"]
    /\ UNCHANGED <<held, count, owner, want, mine>>

(* the returned function, first half: m.Unlock().                           *)
Unlock(w) ==
    /\ pc[w] = "holding"
    /\ owner' = [owner EXCEPT ![mine[w]] = Nobody]
    /\ pc' = [pc EXCEPT ![w] = "released"]
    /\ UNCHANGED <<held, count, want, mine>>

\* Mutant: the entry is dropped by every worker that leaves.
EntryDroppedEarly(k) == NoMutex

\* Mutant: the entry is never dropped.
EntryKept(k) == held[k]

\* The table entry goes with its last user.
EntryAfterRelease(k) == IF count[k] = 1 THEN NoMutex ELSE held[k]

(* the returned function, second half, under k.mu: count out, maybe drop.   *)
Release(w) ==
    /\ pc[w] = "released"
    /\ held' = [held EXCEPT ![want[w]] = EntryAfterRelease(want[w])]
    /\ count' = [count EXCEPT ![want[w]] = @ - 1]
    /\ pc' = [pc EXCEPT ![w] = "idle"]
    /\ want' = [want EXCEPT ![w] = NoKey]
    /\ mine' = [mine EXCEPT ![w] = NoMutex]
    /\ UNCHANGED owner

Next == \E w \in Workers :
    \/ \E k \in Keys : Register(w, k)
    \/ Acquire(w)
    \/ Unlock(w)
    \/ Release(w)

Spec == Init /\ [][Next]_vars

\* sync.Mutex hands itself over to a waiter that has waited long enough
\* (starvation mode), hence SF on Acquire; the code between lock and unlock
\* is finite, and goroutines are scheduled.
Fairness == \A w \in Workers :
    /\ SF_vars(Acquire(w))
    /\ WF_vars(Unlock(w))
    /\ WF_vars(Release(w))

FairSpec == Spec /\ Fairness
-----------------------------------------------------------------------------
Users(k) == {w \in Workers : want[w] = k}

Holders(k) == {w \in Users(k) : pc[w] = "holding"}

(* Safety: two goroutines are never between lock and unlock for one key,    *)
(* although the mutex they use is dropped from the table and created anew   *)
(* while others wait on it (queue.go:208-235).                              *)
MutualExclusion ==
    \A k \in Keys : \A w, v \in Holders(k) : w = v

(* Safety: the table holds exactly the keys somebody uses or waits for, so  *)
(* a long-running process does not accumulate one mutex per record it has   *)
(* ever seen, and a waiter's mutex is never dropped (queue.go:225-232).     *)
TableMatchesUsers ==
    \A k \in Keys :
        /\ count[k] = Cardinality(Users(k))
        /\ held[k] # NoMutex <=> Users(k) # {}

(* Liveness: a call of lock returns, whatever the other workers do.         *)
LockGranted == \A w \in Workers : pc[w] = "waiting" ~> pc[w] = "holding"

-----------------------------------------------------------------------------
(* The worker whose turn it is, as KeyLock has it.                          *)
OnlyOneOf(S) == IF S = {} THEN Nobody ELSE CHOOSE w \in Workers : w \in S

TurnOf(k) == OnlyOneOf(Holders(k))

Abstract == INSTANCE KeyLock WITH turn <- [k \in Keys |-> TurnOf(k)]

(* Refinement: seen through the workers that are between lock and unlock,   *)
(* the table of mutexes is one plain lock per key.                          *)
ImplementsKeyLock == Abstract!LockSpec

-----------------------------------------------------------------------------
(* The inductive invariant behind MutualExclusion: every user of a key has  *)
(* the mutex that is in the table, no mutex serves two keys, and a mutex is *)
(* locked exactly by the worker that is between lock and unlock with it.    *)
UsersShareEntry ==
    \A w \in Workers :
        /\ pc[w] = "idle" => want[w] = NoKey /\ mine[w] = NoMutex
        /\ pc[w] # "idle" => /\ want[w] \in Keys
                             /\ mine[w] \in Mutexes
                             /\ held[want[w]] = mine[w]

EntriesDistinct ==
    \A j, k \in Keys : held[j] = held[k] /\ held[j] # NoMutex => j = k

OwnerHolds ==
    /\ \A w \in Workers : pc[w] = "holding" => owner[mine[w]] = w
    /\ \A m \in Mutexes : owner[m] # Nobody =>
           /\ pc[owner[m]] = "holding"
           /\ mine[owner[m]] = m

IInv ==
    /\ TypeOK
    /\ UsersShareEntry
    /\ EntriesDistinct
    /\ OwnerHolds
    /\ TableMatchesUsers
=============================================================================
