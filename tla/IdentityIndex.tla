--------------------------- MODULE IdentityIndex ---------------------------
(***************************************************************************)
(* The key index of internal/identity/identity.go: Index and Deindex, row   *)
(* by row.  A key row lists the records that hold a key; an owner row lists *)
(* the keys a record holds.  Adding or removing a record is a read and a    *)
(* write of the key row with nothing to hold others off in between.         *)
(*                                                                          *)
(* The keys are those of one connector, since the connector's name is part  *)
(* of the row's key.  A worker indexes in a pass, a poll on sight.          *)
(***************************************************************************)
EXTENDS FiniteSets

CONSTANTS
    Recs, Keys,
    Settings,   \* who indexes what: see below
    NoRec       \* no record, no key

\* The goroutines that index at the same time; the sets of keys each record
\* may have; and whether a body may be older than the one another goroutine
\* is indexing for the same record.
ASSUME SettingsAssumption ==
    \A s \in Settings : /\ DOMAIN s = {"callers", "bodies", "stale"}
                        /\ IsFiniteSet(s.callers)
                        /\ s.bodies \in [Recs -> SUBSET SUBSET Keys]
                        /\ s.stale \in BOOLEAN
ASSUME NoRecAssumption == NoRec \notin Recs \union Keys

KeyRow(k) == <<"keys", k>>
OwnerRow(r) == <<"owner", r>>
IndexRows == {KeyRow(k) : k \in Keys} \union {OwnerRow(r) : r \in Recs}

VARIABLES
    base, over, deleted, dry,   \* the store
    setting,
    job,     \* job[c]: the call caller c is in
    held,    \* the keys each record was last indexed with, when it returned
    torn,    \* a call was cut short
    kept     \* held, before the dry run

\* An empty list is never stored: no row and {} are the same.
INSTANCE Overlay WITH Rows <- IndexRows, NoRow <- {}

storeVars == <<base, over, deleted, dry>>
vars == <<storeVars, setting, job, held, torn, kept>>

Resting == [pc |-> "idle", rec |-> NoRec, holds |-> {}, todo |-> {},
            key |-> NoRec, entry |-> {}]

Init ==
    /\ EmptyStore
    /\ setting \in Settings
    /\ job = [c \in setting.callers |-> Resting]
    /\ held = [r \in Recs |-> {}] /\ torn = FALSE
    /\ kept = [held |-> held, torn |-> FALSE]

-----------------------------------------------------------------------------
(* Index(ref, canonical) is releaseKeys, then addRef for each key, then the *)
(* owner row.  Deindex(ref) is releaseKeys, as is an Index without keys.    *)

Call(c, r, ks) ==
    /\ job[c].pc = "idle"
    /\ ks \in setting.bodies[r] \union {{}}
    /\ setting.stale \/ \A d \in setting.callers : job[d].rec = r => job[d].holds = ks
    /\ job' = [job EXCEPT ![c] = [Resting EXCEPT !.pc = "owner", !.rec = r, !.holds = ks]]
    /\ UNCHANGED <<storeVars, setting, held, torn, kept>>

Return(c) ==
    /\ job' = [job EXCEPT ![c] = Resting]
    /\ held' = [held EXCEPT ![job[c].rec] = job[c].holds]

\* The old keys are released: add the new ones, or return.
Released(c) ==
    IF job[c].holds = {} THEN Return(c)
    ELSE /\ job' = [job EXCEPT ![c].pc = "add", ![c].todo = job[c].holds]
         /\ UNCHANGED held

\* releaseKeys reads the owner row ...
ReadOwner(c) ==
    LET keys == Get(OwnerRow(job[c].rec)) IN
    /\ job[c].pc = "owner"
    /\ IF keys = {} THEN Released(c)
       ELSE /\ job' = [job EXCEPT ![c].pc = "drop", ![c].todo = keys]
            /\ UNCHANGED held
    /\ UNCHANGED <<storeVars, setting, torn, kept>>

\* ... and drops it when the record is out of every key row.
DropOwner(c) ==
    /\ job[c].pc = "drop" /\ job[c].todo = {}
    /\ Delete(OwnerRow(job[c].rec))
    /\ Released(c)
    /\ UNCHANGED <<setting, torn, kept>>

\* removeRef and addRef load a key row; addRef is done if the record is there.
Loaded(j, k, entry) ==
    IF j.pc = "add" /\ j.rec \in entry THEN [j EXCEPT !.todo = @ \ {k}]
    ELSE [j EXCEPT !.pc = IF @ = "drop" THEN "dropping" ELSE "adding",
                   !.todo = @ \ {k}, !.key = k, !.entry = entry]

LoadKey(c, k) ==
    /\ job[c].pc \in {"drop", "add"} /\ k \in job[c].todo
    /\ job' = [job EXCEPT ![c] = Loaded(job[c], k, Get(KeyRow(k)))]
    /\ UNCHANGED <<storeVars, setting, held, torn, kept>>

\* saveKey; a row nobody is left in is deleted.
Save(k, entry) == IF entry = {} THEN Delete(KeyRow(k)) ELSE Put(KeyRow(k), entry)

\* Mutant: the row is written afresh.
AddedAlone(entry, r) == {r}

Added(entry, r) == entry \union {r}

SaveKey(c) ==
    LET j == job[c] IN
    /\ \/ j.pc = "dropping" /\ Save(j.key, j.entry \ {j.rec})
       \/ j.pc = "adding" /\ Save(j.key, Added(j.entry, j.rec))
    /\ job' = [job EXCEPT ![c] = [j EXCEPT !.pc = IF @ = "dropping" THEN "drop" ELSE "add",
                                           !.key = NoRec, !.entry = {}]]
    /\ UNCHANGED <<setting, held, torn, kept>>

PutOwner(c) ==
    /\ job[c].pc = "add" /\ job[c].todo = {}
    /\ Put(OwnerRow(job[c].rec), job[c].holds)
    /\ Return(c)
    /\ UNCHANGED <<setting, torn, kept>>

Indexing == {job[c].rec : c \in setting.callers}

\* The process ends, or the store fails: the calls stop where they are.
Abort ==
    /\ \E c \in setting.callers : job[c].pc # "idle"
    /\ job' = [c \in setting.callers |-> Resting]
    /\ held' = [r \in Recs |-> IF r \in Indexing THEN {} ELSE held[r]]
    /\ torn' = TRUE
    /\ UNCHANGED <<storeVars, setting, kept>>

-----------------------------------------------------------------------------
(* Plan: a dry run over the same store, by one process at a time.           *)

AtRest == \A c \in setting.callers : job[c].pc = "idle"

StartPlan ==
    /\ AtRest /\ Cover
    /\ kept' = [held |-> held, torn |-> torn]
    /\ UNCHANGED <<setting, job, held, torn>>

EndPlan ==
    /\ AtRest /\ Discard
    /\ held' = kept.held /\ torn' = kept.torn
    /\ UNCHANGED <<setting, job, kept>>

Next ==
    \/ \E c \in setting.callers :
         \/ \E r \in Recs, ks \in SUBSET Keys : Call(c, r, ks)
         \/ \E k \in Keys : LoadKey(c, k)
         \/ ReadOwner(c) \/ DropOwner(c) \/ SaveKey(c) \/ PutOwner(c)
    \/ Abort \/ StartPlan \/ EndPlan

Spec == Init /\ [][Next]_vars
-----------------------------------------------------------------------------
(* Safety: a record is found under every key it was last indexed with,      *)
(* whatever was done to other records and whichever calls were cut short;   *)
(* one that is not found is created a second time (poll.go:32-36).          *)
Findable ==
    \A r \in Recs \ Indexing : \A k \in held[r] : r \in Get(KeyRow(k))

(* Safety: at rest a key finds the records that hold it and no others, in a *)
(* dry run as in a real one and after the dry run is thrown away            *)
(* (identity.go:128-131, overlay.go:12-20), unless a call was cut short.    *)
IndexExact ==
    AtRest /\ ~torn => \A k \in Keys : Get(KeyRow(k)) = {r \in Recs : k \in held[r]}

(* Safety: a record that keeps a key is found under it all the time, while  *)
(* it is being indexed again as well (poll.go:75-77).                       *)
FindableThroughout ==
    [][\A k \in Keys : \A r \in Get(KeyRow(k)) :
         (\A c \in setting.callers : job[c].rec = r => k \in job[c].holds)
           => dry' # dry \/ r \in Get(KeyRow(k))']_vars

(* Safety: at rest a key finds no record that does not hold it, also after  *)
(* calls were cut short and their records indexed anew                      *)
(* (identity.go:128-131).                                                   *)
NothingStale ==
    AtRest /\ (\A r \in Recs : held[r] # {})
      => \A k \in Keys : Get(KeyRow(k)) \subseteq {r \in Recs : k \in held[r]}

-----------------------------------------------------------------------------
(* What Findable and IndexExact are proved from, in IdentityIndexProofs.    *)

\* One goroutine, or records that never have a key in common; and no body
\* older than the one somebody is indexing.
Unshared(s) ==
    /\ ~s.stale
    /\ \/ \A c, d \in s.callers : c = d
       \/ \A r, q \in Recs : r # q => (UNION s.bodies[r]) \intersect (UNION s.bodies[q]) = {}

KeysOf(r) == UNION setting.bodies[r]
HoldersOf(k) == {r \in Recs : k \in KeysOf(r)}

StoreOK ==
    /\ base \in [IndexRows -> (SUBSET Recs) \union (SUBSET Keys)]
    /\ over \in [IndexRows -> (SUBSET Recs) \union (SUBSET Keys)]
    /\ dry \in BOOLEAN /\ (~dry => over = Empty /\ deleted = {})

Calls ==
    [pc : {"idle", "owner", "drop", "dropping", "add", "adding"}, rec : Recs \union {NoRec},
     holds : SUBSET Keys, todo : SUBSET Keys, key : Keys \union {NoRec}, entry : SUBSET Recs]

\* A call keeps to the keys its record may have, and adds those it was given.
CallOK(j) ==
    /\ j.pc = "idle" => j = Resting
    /\ j.pc # "idle" => j.rec \in Recs /\ j.holds \union j.todo \subseteq KeysOf(j.rec)
    /\ j.pc \in {"dropping", "adding"} => j.key \in KeysOf(j.rec)
    /\ j.pc \in {"add", "adding"} => j.holds # {} /\ j.todo \subseteq j.holds
    /\ j.pc = "adding" => j.key \in j.holds

CallsOK ==
    /\ setting \in Settings
    /\ job \in [setting.callers -> Calls]
    /\ \A c \in setting.callers : CallOK(job[c])

\* Calls on one record at once were given the same body.
SameBody ==
    \A c, d \in setting.callers : job[c].rec = job[d].rec => job[c].holds = job[d].holds

\* What a caller would read.
View == [row \in IndexRows |-> Get(row)]

\* Rows hold what they may hold.
RowsOK(rows) ==
    /\ \A k \in Keys : rows[KeyRow(k)] \subseteq HoldersOf(k)
    /\ \A r \in Recs : rows[OwnerRow(r)] \subseteq KeysOf(r)

\* What was read of the other records of a key row still stands.
EntryStands ==
    \A c \in setting.callers : job[c].pc \in {"dropping", "adding"} =>
        job[c].entry \ {job[c].rec} = View[KeyRow(job[c].key)] \ {job[c].rec}

\* Caller c will see to it that its record is under key k.
WillAdd(c, k) ==
    \/ job[c].pc \in {"owner", "drop", "dropping"}
    \/ job[c].pc = "add" /\ k \in job[c].todo
    \/ job[c].pc = "adding" /\ k \in job[c].todo \union {job[c].key}

\* A key of the body is in place, or somebody still puts it there.
Promised ==
    \A c \in setting.callers : job[c].pc # "idle" => \A k \in job[c].holds :
        \/ job[c].rec \in View[KeyRow(k)]
        \/ \E d \in setting.callers : job[d].rec = job[c].rec /\ WillAdd(d, k)

\* The keys that a call has yet to release.
ToRelease(c) ==
    CASE job[c].pc = "owner" -> Keys
      [] job[c].pc = "drop" -> job[c].todo
      [] job[c].pc = "dropping" -> job[c].todo \union {job[c].key}
      [] OTHER -> {}

\* A key of an earlier body is in the owner row and will be released.
Releasing ==
    \A c \in setting.callers : job[c].pc # "idle" => \A k \in Keys :
        job[c].rec \in View[KeyRow(k)] =>
            k \in job[c].holds \union (View[OwnerRow(job[c].rec)] \intersect ToRelease(c))

\* A record at rest is where its keys say; unless a call was cut short,
\* nowhere else, and its owner row knows.
Placed(r, rows, keys) == \A k \in keys : r \in rows[KeyRow(k)]
Exact(r, rows, keys) ==
    rows[OwnerRow(r)] = keys /\ \A k \in Keys : r \in rows[KeyRow(k)] => k \in keys

Settled ==
    \A r \in Recs \ Indexing : Placed(r, View, held[r]) /\ (~torn => Exact(r, View, held[r]))

BaseSettled ==
    dry => /\ RowsOK(base) /\ kept.held \in [Recs -> SUBSET Keys] /\ kept.torn \in BOOLEAN
           /\ \A r \in Recs : /\ Placed(r, base, kept.held[r])
                              /\ ~kept.torn => Exact(r, base, kept.held[r])

IInv ==
    /\ StoreOK /\ CallsOK /\ held \in [Recs -> SUBSET Keys] /\ torn \in BOOLEAN
    /\ SameBody /\ RowsOK(View) /\ EntryStands /\ Promised
    /\ ~torn => Releasing
    /\ Settled /\ BaseSettled
=============================================================================
