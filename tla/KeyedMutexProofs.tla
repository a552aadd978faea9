-------------------------- MODULE KeyedMutexProofs --------------------------
(***************************************************************************)
(* KeyedMutex for every number of workers, keys and mutexes: the inductive  *)
(* invariant IInv, mutual exclusion, and the refinement of KeyLock.         *)
(***************************************************************************)
EXTENDS KeyedMutex, FiniteSetTheorems, TLAPS

(* The users of a key form a finite set, so they can be counted.            *)
LEMMA UsersFinite ==
    ASSUME NEW k \in Keys
    PROVE  IsFiniteSet(Users(k)) /\ Cardinality(Users(k)) \in Nat
<1>1. Users(k) \subseteq Workers
  BY DEF Users
<1>2. IsFiniteSet(Users(k))
  BY <1>1, WorkersAssumption, FS_Subset
<1> QED BY <1>2, FS_CardinalityType

(* Initially nothing is in the table and nobody uses anything.              *)
LEMMA InitIInv == Init => IInv
<1> SUFFICES ASSUME Init PROVE IInv
  OBVIOUS
<1> USE DEF Init
<1>1. TypeOK
  BY DEF TypeOK
<1>2. UsersShareEntry
  BY DEF UsersShareEntry
<1>3. EntriesDistinct
  BY DEF EntriesDistinct
<1>4. OwnerHolds
  BY DEF OwnerHolds
<1>5. ASSUME NEW k \in Keys
      PROVE  Users(k) = {}
  BY NamesAssumption DEF Users
<1>6. TableMatchesUsers
  BY <1>5, FS_EmptySet DEF TableMatchesUsers
<1> QED BY <1>1, <1>2, <1>3, <1>4, <1>6 DEF IInv

(* Registering finds the mutex all other users have, or a fresh one.        *)
LEMMA RegisterIInv ==
    ASSUME IInv, NEW w \in Workers, NEW k \in Keys, Register(w, k)
    PROVE  IInv'
<1> USE DEF IInv
<1>1. PICK m \in Mutexes :
         /\ IF held[k] = NoMutex THEN Unreferenced(m) ELSE m = held[k]
         /\ held' = [held EXCEPT ![k] = m]
         /\ mine' = [mine EXCEPT ![w] = m]
  BY DEF Register
<1>2. /\ pc[w] = "idle"
      /\ count' = [count EXCEPT ![k] = @ + 1]
      /\ want' = [want EXCEPT ![w] = k]
      /\ pc' = [pc EXCEPT ![w] = "waiting"]
      /\ owner' = owner
  BY DEF Register
<1>3. want[w] = NoKey /\ mine[w] = NoMutex
  BY <1>2 DEF UsersShareEntry
<1>4. TypeOK'
  BY <1>1, <1>2 DEF TypeOK
<1>5. ASSUME NEW v \in Workers, v # w, pc[v] # "idle"
      PROVE  held'[want[v]] = mine[v]
  <2>1. want[v] \in Keys /\ mine[v] \in Mutexes /\ held[want[v]] = mine[v]
    BY <1>5 DEF UsersShareEntry
  <2>2. CASE want[v] = k
    <3>1. held[k] = mine[v] /\ held[k] # NoMutex
      BY <2>1, <2>2, NamesAssumption
    <3> QED BY <3>1, <1>1, <2>2 DEF TypeOK
  <2>3. CASE want[v] # k
    BY <2>1, <2>3, <1>1 DEF TypeOK
  <2> QED BY <2>2, <2>3
<1>6. UsersShareEntry'
  BY <1>1, <1>2, <1>5 DEF UsersShareEntry, TypeOK
<1>7. EntriesDistinct'
  <2> SUFFICES ASSUME NEW i \in Keys, NEW j \in Keys,
                      held'[i] = held'[j], held'[i] # NoMutex
               PROVE  i = j
    BY DEF EntriesDistinct
  <2>1. CASE held[k] = NoMutex
    <3>1. \A n \in Keys : held[n] # m
      BY <1>1, <2>1 DEF Unreferenced
    <3>2. held'[k] = m /\ \A n \in Keys : n # k => held'[n] = held[n]
      BY <1>1 DEF TypeOK
    <3> QED BY <3>1, <3>2 DEF EntriesDistinct
  <2>2. CASE held[k] # NoMutex
    <3>1. held' = held
      BY <1>1, <2>2 DEF TypeOK
    <3> QED BY <3>1 DEF EntriesDistinct
  <2> QED BY <2>1, <2>2
<1>8. OwnerHolds'
  <2>1. \A v \in Workers : pc'[v] = "holding" => v # w /\ pc[v] = "holding"
    BY <1>2 DEF TypeOK
  <2>2. \A v \in Workers : pc'[v] = "holding" => owner'[mine'[v]] = v
    BY <2>1, <1>1, <1>2 DEF OwnerHolds, TypeOK
  <2>3. \A n \in Mutexes : owner[n] # Nobody => owner[n] \in Workers \ {w}
    BY <1>2 DEF OwnerHolds, TypeOK
  <2>4. \A n \in Mutexes : owner'[n] # Nobody =>
           pc'[owner'[n]] = "holding" /\ mine'[owner'[n]] = n
    BY <2>3, <1>1, <1>2 DEF OwnerHolds, TypeOK
  <2> QED BY <2>2, <2>4 DEF OwnerHolds
<1>9. TableMatchesUsers'
  <2> SUFFICES ASSUME NEW j \in Keys
               PROVE  /\ count'[j] = Cardinality(Users(j)')
                      /\ held'[j] # NoMutex <=> Users(j)' # {}
    BY DEF TableMatchesUsers
  <2>1. CASE j = k
    <3>1. w \notin Users(j)
      BY <1>3, NamesAssumption DEF Users
    <3>2. Users(j)' = Users(j) \union {w}
      BY <1>2, <2>1 DEF Users, TypeOK
    <3>3. Cardinality(Users(j)') = Cardinality(Users(j)) + 1
      BY <3>1, <3>2, UsersFinite, FS_AddElement
    <3>4. count'[j] = count[j] + 1 /\ held'[j] = m
      BY <1>1, <1>2, <2>1 DEF TypeOK
    <3>5. count[j] = Cardinality(Users(j))
      BY DEF TableMatchesUsers
    <3> QED BY <3>2, <3>3, <3>4, <3>5, NamesAssumption
  <2>2. CASE j # k
    <3>1. Users(j)' = Users(j)
      BY <1>2, <1>3, <2>2, NamesAssumption DEF Users, TypeOK
    <3>2. count'[j] = count[j] /\ held'[j] = held[j]
      BY <1>1, <1>2, <2>2 DEF TypeOK
    <3> QED BY <3>1, <3>2 DEF TableMatchesUsers
  <2> QED BY <2>1, <2>2
<1> QED BY <1>4, <1>6, <1>7, <1>8, <1>9

(* m.Lock() returns only while nobody holds that mutex.                     *)
LEMMA AcquireIInv ==
    ASSUME IInv, NEW w \in Workers, Acquire(w)
    PROVE  IInv'
<1> USE DEF IInv
<1>1. /\ pc[w] = "waiting"
      /\ mine[w] \in Mutexes
      /\ owner[mine[w]] = Nobody
      /\ owner' = [owner EXCEPT ![mine[w]] = w]
      /\ pc' = [pc EXCEPT ![w] = "holding"]
      /\ held' = held /\ count' = count /\ want' = want /\ mine' = mine
  BY DEF Acquire, UsersShareEntry
<1>2. TypeOK'
  BY <1>1 DEF TypeOK
<1>3. UsersShareEntry' /\ EntriesDistinct'
  BY <1>1 DEF UsersShareEntry, EntriesDistinct, TypeOK
<1>4. OwnerHolds'
  <2>1. \A v \in Workers : v # w /\ pc[v] = "holding" => mine[v] # mine[w]
    BY <1>1, NamesAssumption DEF OwnerHolds
  <2>2. \A v \in Workers : pc'[v] = "holding" => owner'[mine'[v]] = v
    BY <1>1, <2>1 DEF OwnerHolds, TypeOK, UsersShareEntry
  <2>3. \A n \in Mutexes : owner'[n] # Nobody =>
           pc'[owner'[n]] = "holding" /\ mine'[owner'[n]] = n
    BY <1>1 DEF OwnerHolds, TypeOK
  <2> QED BY <2>2, <2>3 DEF OwnerHolds
<1>5. TableMatchesUsers'
  BY <1>1 DEF TableMatchesUsers, Users
<1> QED BY <1>2, <1>3, <1>4, <1>5

(* m.Unlock() frees the worker's own mutex and nobody else's.               *)
LEMMA UnlockIInv ==
    ASSUME IInv, NEW w \in Workers, Unlock(w)
    PROVE  IInv'
<1> USE DEF IInv
<1>1. /\ pc[w] = "holding"
      /\ mine[w] \in Mutexes
      /\ owner[mine[w]] = w
      /\ owner' = [owner EXCEPT ![mine[w]] = Nobody]
      /\ pc' = [pc EXCEPT ![w] = "released"]
      /\ held' = held /\ count' = count /\ want' = want /\ mine' = mine
  BY DEF Unlock, UsersShareEntry, OwnerHolds
<1>2. TypeOK'
  BY <1>1 DEF TypeOK
<1>3. UsersShareEntry' /\ EntriesDistinct'
  BY <1>1 DEF UsersShareEntry, EntriesDistinct, TypeOK
<1>4. OwnerHolds'
  <2>1. \A v \in Workers : pc'[v] = "holding" => v # w /\ pc[v] = "holding"
    BY <1>1 DEF TypeOK
  <2>2. \A v \in Workers : pc'[v] = "holding" => owner'[mine'[v]] = v
    <3> SUFFICES ASSUME NEW v \in Workers, pc'[v] = "holding"
                 PROVE  owner'[mine'[v]] = v
      OBVIOUS
    <3>1. v # w /\ owner[mine[v]] = v /\ mine[v] # mine[w] /\ mine[v] \in Mutexes
      BY <1>1, <2>1 DEF OwnerHolds, UsersShareEntry
    <3> QED BY <3>1, <1>1 DEF TypeOK
  <2>3. \A n \in Mutexes : owner'[n] # Nobody =>
           pc'[owner'[n]] = "holding" /\ mine'[owner'[n]] = n
    <3> SUFFICES ASSUME NEW n \in Mutexes, owner'[n] # Nobody
                 PROVE  pc'[owner'[n]] = "holding" /\ mine'[owner'[n]] = n
      OBVIOUS
    <3>1. n # mine[w] /\ owner'[n] = owner[n] /\ owner[n] \in Workers
      BY <1>1 DEF TypeOK
    <3>2. pc[owner[n]] = "holding" /\ mine[owner[n]] = n
      BY <3>1 DEF OwnerHolds
    <3>3. owner[n] # w
      BY <3>1, <3>2
    <3> QED BY <3>1, <3>2, <3>3, <1>1 DEF TypeOK
  <2> QED BY <2>2, <2>3 DEF OwnerHolds
<1>5. TableMatchesUsers'
  BY <1>1 DEF TableMatchesUsers, Users
<1> QED BY <1>2, <1>3, <1>4, <1>5

(* The last user takes the entry with it; any other leaves it in place.     *)
LEMMA ReleaseIInv ==
    ASSUME IInv, NEW w \in Workers, Release(w)
    PROVE  IInv'
<1> USE DEF IInv
<1>0. PICK k \in Keys : want[w] = k
  BY DEF Release, UsersShareEntry
<1>1. /\ pc[w] = "released"
      /\ k \in Keys /\ mine[w] \in Mutexes /\ held[k] = mine[w]
      /\ held' = [held EXCEPT ![k] = EntryAfterRelease(k)]
      /\ count' = [count EXCEPT ![k] = @ - 1]
      /\ pc' = [pc EXCEPT ![w] = "idle"]
      /\ want' = [want EXCEPT ![w] = NoKey]
      /\ mine' = [mine EXCEPT ![w] = NoMutex]
      /\ owner' = owner
      /\ want[w] = k
  BY <1>0 DEF Release, UsersShareEntry
<1>2. w \in Users(k) /\ Users(k)' = Users(k) \ {w}
  BY <1>1, NamesAssumption DEF Users, TypeOK
<1>3. /\ Cardinality(Users(k)') = Cardinality(Users(k)) - 1
      /\ count[k] = Cardinality(Users(k))
      /\ count[k] \in Nat
  BY <1>1, <1>2, UsersFinite, FS_RemoveElement DEF TableMatchesUsers, TypeOK
<1>4. Users(k) = {w} <=> count[k] = 1
  <2>1. IsFiniteSet(Users(k) \ {w})
    BY <1>1, UsersFinite, FS_RemoveElement
  <2>2. Cardinality(Users(k) \ {w}) = 0 <=> Users(k) \ {w} = {}
    BY <2>1, FS_EmptySet
  <2>3. Users(k) \ {w} = {} <=> Users(k) = {w}
    BY <1>2
  <2> QED BY <1>2, <1>3, <2>2, <2>3
<1>5. count[k] >= 1
  <2>1. Cardinality(Users(k)') \in Nat
    <3>1. IsFiniteSet(Users(k) \ {w})
      BY <1>1, UsersFinite, FS_RemoveElement
    <3> QED BY <3>1, <1>2, FS_CardinalityType
  <2> QED BY <2>1, <1>3
<1>6. TypeOK'
  BY <1>1, <1>5 DEF TypeOK, EntryAfterRelease
<1>7. UsersShareEntry'
  <2> SUFFICES ASSUME NEW v \in Workers
               PROVE  /\ pc'[v] = "idle" => want'[v] = NoKey /\ mine'[v] = NoMutex
                      /\ pc'[v] # "idle" => /\ want'[v] \in Keys
                                            /\ mine'[v] \in Mutexes
                                            /\ held'[want'[v]] = mine'[v]
    BY DEF UsersShareEntry
  <2>1. CASE v = w
    BY <2>1, <1>1 DEF TypeOK
  <2>2. CASE v # w
    <3>1. pc'[v] = pc[v] /\ want'[v] = want[v] /\ mine'[v] = mine[v]
      BY <2>2, <1>1 DEF TypeOK
    <3>2. CASE want[v] = k
      <4>1. v \in Users(k)
        BY <3>2 DEF Users
      <4>2. count[k] # 1
        BY <1>4, <2>2, <4>1
      <4>3. held'[k] = held[k]
        BY <4>2, <1>1 DEF EntryAfterRelease, TypeOK
      <4> QED BY <3>1, <3>2, <4>3 DEF UsersShareEntry
    <3>3. CASE want[v] # k
      <4>1. want[v] \in Keys => held'[want[v]] = held[want[v]]
        BY <3>3, <1>1 DEF TypeOK
      <4> QED BY <3>1, <4>1 DEF UsersShareEntry
    <3> QED BY <3>2, <3>3
  <2> QED BY <2>1, <2>2
<1>8. EntriesDistinct'
  <2>1. \A j \in Keys : held'[j] = held[j] \/ held'[j] = NoMutex
    BY <1>1 DEF EntryAfterRelease, TypeOK
  <2> QED BY <2>1 DEF EntriesDistinct
<1>9. OwnerHolds'
  <2>1. \A v \in Workers : pc'[v] = "holding" => v # w /\ pc[v] = "holding"
    BY <1>1 DEF TypeOK
  <2>2. \A v \in Workers : pc'[v] = "holding" => owner'[mine'[v]] = v
    BY <2>1, <1>1 DEF OwnerHolds, TypeOK
  <2>3. \A n \in Mutexes : owner[n] # Nobody => owner[n] \in Workers \ {w}
    BY <1>1 DEF OwnerHolds, TypeOK
  <2>4. \A n \in Mutexes : owner'[n] # Nobody =>
           pc'[owner'[n]] = "holding" /\ mine'[owner'[n]] = n
    BY <2>3, <1>1 DEF OwnerHolds, TypeOK
  <2> QED BY <2>2, <2>4 DEF OwnerHolds
<1>10. TableMatchesUsers'
  <2> SUFFICES ASSUME NEW j \in Keys
               PROVE  /\ count'[j] = Cardinality(Users(j)')
                      /\ held'[j] # NoMutex <=> Users(j)' # {}
    BY DEF TableMatchesUsers
  <2>1. CASE j = k
    <3>1. count'[j] = Cardinality(Users(j)')
      BY <2>1, <1>1, <1>3, <1>5 DEF TypeOK
    <3>2. held'[j] # NoMutex <=> count[k] # 1
      BY <2>1, <1>1, NamesAssumption DEF EntryAfterRelease, TypeOK
    <3>3. Users(j)' # {} <=> Users(k) # {w}
      BY <2>1, <1>2
    <3> QED BY <3>1, <3>2, <3>3, <1>4
  <2>2. CASE j # k
    <3>1. Users(j)' = Users(j)
      BY <1>1, <2>2, NamesAssumption DEF Users, TypeOK
    <3>2. count'[j] = count[j] /\ held'[j] = held[j]
      BY <1>1, <2>2 DEF TypeOK
    <3> QED BY <3>1, <3>2 DEF TableMatchesUsers
  <2> QED BY <2>1, <2>2
<1> QED BY <1>6, <1>7, <1>8, <1>9, <1>10

(* IInv is inductive.                                                       *)
LEMMA NextIInv == IInv /\ [Next]_vars => IInv'
<1> SUFFICES ASSUME IInv, [Next]_vars PROVE IInv'
  OBVIOUS
<1>1. ASSUME NEW w \in Workers, NEW k \in Keys, Register(w, k) PROVE IInv'
  BY <1>1, RegisterIInv
<1>2. ASSUME NEW w \in Workers, Acquire(w) PROVE IInv'
  BY <1>2, AcquireIInv
<1>3. ASSUME NEW w \in Workers, Unlock(w) PROVE IInv'
  BY <1>3, UnlockIInv
<1>4. ASSUME NEW w \in Workers, Release(w) PROVE IInv'
  BY <1>4, ReleaseIInv
<1>5. CASE UNCHANGED vars
  <2> USE <1>5 DEF vars, IInv
  <2>1. TypeOK' /\ UsersShareEntry' /\ EntriesDistinct' /\ OwnerHolds'
    BY DEF TypeOK, UsersShareEntry, EntriesDistinct, OwnerHolds
  <2>2. \A k \in Keys : Users(k)' = Users(k)
    BY DEF Users
  <2>3. TableMatchesUsers'
    BY <2>2 DEF TableMatchesUsers
  <2> QED BY <2>1, <2>3
<1> QED BY <1>1, <1>2, <1>3, <1>4, <1>5 DEF Next

(* IInv holds in every reachable state: types, one shared mutex per key in  *)
(* use, and a table that holds exactly the keys in use (queue.go:198-235).  *)
THEOREM KeyedMutexInvariant == Spec => []IInv
BY InitIInv, NextIInv, PTL DEF Spec

(* Two holders of one key share its mutex, and a mutex has one owner.       *)
LEMMA IInvExclusive == IInv => MutualExclusion
<1> SUFFICES ASSUME IInv, NEW k \in Keys, NEW w \in Holders(k), NEW v \in Holders(k)
             PROVE  w = v
  BY DEF MutualExclusion
<1>1. mine[w] = held[k] /\ mine[v] = held[k] /\ w \in Workers /\ v \in Workers
      /\ pc[w] = "holding" /\ pc[v] = "holding"
  BY DEF IInv, UsersShareEntry, Holders, Users
<1> QED BY <1>1 DEF IInv, OwnerHolds

(* Mutual exclusion per key for every number of workers, keys and mutexes,  *)
(* although entries are dropped and created anew (queue.go:198-235).        *)
THEOREM KeyedMutexExclusive == Spec => []MutualExclusion
BY KeyedMutexInvariant, IInvExclusive, PTL
-----------------------------------------------------------------------------
(* Refinement of KeyLock.                                                   *)

(* The abstract turn on a key is its one holder, or Nobody.                 *)
LEMMA TurnIsHolder ==
    ASSUME IInv, NEW k \in Keys
    PROVE  /\ \A w \in Holders(k) : TurnOf(k) = w
           /\ Holders(k) = {} => TurnOf(k) = Nobody
<1>1. \A w, v \in Holders(k) : w = v
  BY IInvExclusive DEF MutualExclusion
<1>2. Holders(k) \subseteq Workers
  BY DEF Holders, Users
<1>3. ASSUME NEW w \in Holders(k)
      PROVE  TurnOf(k) = w
  <2>1. \E v \in Workers : v \in Holders(k)
    BY <1>2
  <2>2. (CHOOSE v \in Workers : v \in Holders(k)) \in Holders(k)
    BY <2>1
  <2> QED BY <1>1, <2>2 DEF TurnOf, OnlyOneOf
<1> QED BY <1>3 DEF TurnOf, OnlyOneOf

(* A step that changes no holder changes no turn.                           *)
LEMMA SameHoldersSameTurn ==
    ASSUME \A k \in Keys : Holders(k)' = Holders(k)
    PROVE  [k \in Keys |-> TurnOf(k)]' = [k \in Keys |-> TurnOf(k)]
BY DEF TurnOf

(* m.Lock() returning is the abstract Take.                                 *)
LEMMA AcquireTakes ==
    ASSUME IInv, IInv', NEW w \in Workers, Acquire(w)
    PROVE  Abstract!Take(w, want[w])
<1>0. PICK k \in Keys : want[w] = k
  BY DEF IInv, UsersShareEntry, Acquire
<1>1. /\ pc[w] = "waiting" /\ held[k] = mine[w] /\ mine[w] \in Mutexes
      /\ owner[mine[w]] = Nobody
      /\ pc' = [pc EXCEPT ![w] = "holding"] /\ want' = want
      /\ pc \in [Workers -> {"idle", "waiting", "holding", "released"}]
  BY <1>0 DEF IInv, UsersShareEntry, Acquire, TypeOK
<1>2. Holders(k) = {}
  <2> SUFFICES ASSUME NEW v \in Holders(k) PROVE FALSE
    OBVIOUS
  <2>1. v \in Workers /\ mine[v] = mine[w] /\ pc[v] = "holding"
    BY <1>1 DEF IInv, UsersShareEntry, Holders, Users
  <2> QED BY <1>1, <2>1, NamesAssumption DEF IInv, OwnerHolds
<1>3. Holders(k)' = {w}
  BY <1>0, <1>1, <1>2 DEF Holders, Users
<1>4. \A j \in Keys : j # k => Holders(j)' = Holders(j)
  BY <1>0, <1>1 DEF Holders, Users
<1>5. \A j \in Keys : w \notin Holders(j)
  BY <1>1 DEF Holders
<1>6. TurnOf(k) = Nobody
  BY <1>2, TurnIsHolder
<1>7. TurnOf(k)' = w
  <2>1. (CHOOSE v \in Workers : v \in {w}) = w
    OBVIOUS
  <2> QED BY <1>3, <2>1 DEF TurnOf, OnlyOneOf
<1>8. \A j \in Keys : j # k => TurnOf(j)' = TurnOf(j)
  BY <1>4 DEF TurnOf
<1>9. \A j \in Keys : TurnOf(j) # w
  <2> SUFFICES ASSUME NEW j \in Keys PROVE TurnOf(j) # w
    OBVIOUS
  <2>1. CASE Holders(j) = {}
    BY <2>1, TurnIsHolder, NamesAssumption
  <2>2. CASE Holders(j) # {}
    <3>1. PICK v \in Holders(j) : TRUE
      BY <2>2
    <3> QED BY <3>1, <1>5, TurnIsHolder
  <2> QED BY <2>1, <2>2
<1> QED BY <1>0, <1>6, <1>7, <1>8, <1>9 DEF Abstract!Take

(* m.Unlock() is the abstract Drop.                                         *)
LEMMA UnlockDrops ==
    ASSUME IInv, IInv', NEW w \in Workers, Unlock(w)
    PROVE  Abstract!Drop(w, want[w])
<1>0. PICK k \in Keys : want[w] = k
  BY DEF IInv, UsersShareEntry, Unlock
<1>1. /\ pc[w] = "holding"
      /\ pc' = [pc EXCEPT ![w] = "released"] /\ want' = want
      /\ pc \in [Workers -> {"idle", "waiting", "holding", "released"}]
  BY <1>0 DEF IInv, Unlock, TypeOK
<1>2. w \in Holders(k) /\ Holders(k) = {w}
  <2>1. w \in Holders(k)
    BY <1>0, <1>1 DEF Holders, Users
  <2> QED BY <2>1, IInvExclusive DEF MutualExclusion
<1>3. Holders(k)' = {}
  BY <1>0, <1>1, <1>2 DEF Holders, Users
<1>4. \A j \in Keys : j # k => Holders(j)' = Holders(j)
  BY <1>0, <1>1 DEF Holders, Users
<1>5. TurnOf(k) = w /\ TurnOf(k)' = Nobody
  BY <1>2, <1>3, TurnIsHolder DEF TurnOf, OnlyOneOf
<1>6. \A j \in Keys : j # k => TurnOf(j)' = TurnOf(j)
  BY <1>4 DEF TurnOf
<1> QED BY <1>0, <1>5, <1>6 DEF Abstract!Drop

(* The reference-counted table implements one plain lock per key, for every *)
(* number of workers, keys and mutexes: what Pipeline assumes of lock().    *)
THEOREM KeyedMutexRefinesKeyLock == Spec => ImplementsKeyLock
<1> DEFINE turnBar == [k \in Keys |-> TurnOf(k)]
<1>1. Init => Abstract!LockInit
  <2> SUFFICES ASSUME Init PROVE turnBar = [k \in Keys |-> Nobody]
    BY DEF Abstract!LockInit
  <2>1. \A k \in Keys : Holders(k) = {}
    BY DEF Init, Holders, Users
  <2> QED BY <2>1 DEF TurnOf, OnlyOneOf
<1>2. IInv /\ IInv' /\ [Next]_vars => [Abstract!LockNext]_turnBar
  <2> SUFFICES ASSUME IInv, IInv', [Next]_vars
               PROVE  Abstract!LockNext \/ turnBar' = turnBar
    OBVIOUS
  <2>1. ASSUME NEW w \in Workers, NEW k \in Keys, Register(w, k)
        PROVE  turnBar' = turnBar
    <3>1. /\ pc[w] = "idle" /\ want' = [want EXCEPT ![w] = k]
          /\ pc' = [pc EXCEPT ![w] = "waiting"]
          /\ pc \in [Workers -> {"idle", "waiting", "holding", "released"}]
          /\ want \in [Workers -> Keys \union {NoKey}]
      BY <2>1 DEF Register, IInv, TypeOK
    <3>2. \A j \in Keys : Holders(j)' = Holders(j)
      BY <3>1 DEF Holders, Users
    <3> QED BY <3>2, SameHoldersSameTurn
  <2>2. ASSUME NEW w \in Workers, Acquire(w) PROVE Abstract!LockNext
    <3>1. want[w] \in Keys
      BY <2>2 DEF Acquire, IInv, UsersShareEntry
    <3> QED BY <2>2, <3>1, AcquireTakes DEF Abstract!LockNext
  <2>3. ASSUME NEW w \in Workers, Unlock(w) PROVE Abstract!LockNext
    <3>1. want[w] \in Keys
      BY <2>3 DEF Unlock, IInv, UsersShareEntry
    <3> QED BY <2>3, <3>1, UnlockDrops DEF Abstract!LockNext
  <2>4. ASSUME NEW w \in Workers, Release(w) PROVE turnBar' = turnBar
    <3>1. /\ pc[w] = "released" /\ want' = [want EXCEPT ![w] = NoKey]
          /\ pc' = [pc EXCEPT ![w] = "idle"]
          /\ pc \in [Workers -> {"idle", "waiting", "holding", "released"}]
          /\ want \in [Workers -> Keys \union {NoKey}]
      BY <2>4 DEF Release, IInv, TypeOK
    <3>2. \A j \in Keys : Holders(j)' = Holders(j)
      BY <3>1 DEF Holders, Users
    <3> QED BY <3>2, SameHoldersSameTurn
  <2>5. CASE UNCHANGED vars
    <3>1. \A j \in Keys : Holders(j)' = Holders(j)
      BY <2>5 DEF vars, Holders, Users
    <3> QED BY <3>1, SameHoldersSameTurn
  <2> QED BY <2>1, <2>2, <2>3, <2>4, <2>5 DEF Next
<1> QED BY <1>1, <1>2, KeyedMutexInvariant, PTL
        DEF Spec, ImplementsKeyLock, Abstract!LockSpec
=============================================================================
